---- MODULE Spec2Model ----
(***************************************************************************)
(* A model of sentinel-py: resolution selection (cdse_s2_nodes.py), the    *)
(* auto-refreshing session (cdse_auth.py), the concurrent fetcher          *)
(* (cdse_s2_download.py), the catalogue query (cdse_search.py), the        *)
(* orchestrator (workflows/download_s2.py), the PB offset and the masking  *)
(* stages (s2_masking.py) and the date helpers (utils.py).                 *)
(***************************************************************************)
EXTENDS Integers, Sequences, FiniteSets, TLC

(***************************************************************************)
(* Bounds of the model.                                                    *)
(***************************************************************************)
\* resolution tiers are 1..MaxTier; targets range over 0..MaxTier+1
MaxTier == 3
\* longest iterable of available resolutions handed to choose_best_resolution
MaxAvailLen == 3

\* bytes in the body of a remote file; the stream delivers one byte per chunk
RemoteSize == 2
\* max_workers of download_s2_targets
MaxWorkers == 2
\* threads of the process that use sessions
NThreads == 2
\* sessions that share the token cache
NSessions == 2
\* calls (constructions, requests) the threads make in all
MaxOps == 3
\* times the clock is seen to have advanced
MaxTicks == 1
\* most years (one date window each) given to download_s2_scenes
MaxWindows == 2
\* most rows the catalogue returns, over all the windows of a run
MaxRows == 2
\* most targets select_s2_targets resolves for a scene
MaxTargets == 2
\* most pages in the next-link chain of a catalogue query
MaxPages == 2
\* most directories above a band file
MaxDepth == 2
\* most pixels in the block handed to a pixel function
MaxPixels == 2

\* the transient answers of the server to one request
MaxTransient == 6

\* Python's None for an `int | None` value (every int of the model is >= 0)
NoneVal == -1

VARIABLES
    \* ---- choose_best_resolution ----
    target_res,        \* argument target_res
    available,         \* argument available_resolutions, as the iterable given
    chosen,            \* the value returned
    cpc,               \* "call" before the call, "done" after it
    \* ---- select_s2_targets / download_s2_targets ----
    bands,             \* argument bands of select_s2_targets
    include_scl,       \* argument include_scl of select_s2_targets
    targets,           \* the target list handed to download_s2_targets
    run,               \* which of the successive calls of download_s2_targets
    final,             \* file system: final path -> inode (0: no such file)
    part,              \* file system: '.part' sibling of a path -> inode
    content,           \* file system: inode -> its bytes
    pre_final,         \* bytes of every final path when the call started
    tpc,               \* position of each submitted _download_one
    remote_size,       \* local remote_size of each _download_one
    expected_bytes,    \* local expected_bytes
    bytes_written,     \* local bytes_written
    handle,            \* inode behind the open file f (0: not open)
    status,            \* what _download_one returned
    ops,               \* history: "get", "write" once a _download_one did them
    main_pc,           \* position of download_s2_targets itself
    consumed,          \* futures the as_completed loop has handled
    failures,          \* the list failures
    prev_ok,           \* history: the targets that ended "ok" in the previous call
    \* ---- AutoRefreshSession / get_access_token ----
    token_cache,       \* the dict token_cache shared by the sessions
    now,               \* the latest reading of the clock, _now()
    refresh_lock,      \* AutoRefreshSession._refresh_lock: 0, or the thread holding it
    headers,           \* session -> token of its Authorization header (0: none)
    constructed,       \* the sessions whose __init__ has returned
    apc,               \* position of each thread
    ases,              \* the session a thread is constructing or using
    caller,            \* who called get_access_token: "init" or "request"
    gat_now,           \* local now of get_access_token
    new_tok,           \* the token get_access_token returned
    sends,             \* history: super().request calls of the current request
    grants,            \* history: grants acquired by the current call
    last,              \* history: how the call that ended in the latest step ended
    ops_left,          \* calls the threads may still make
    issued,            \* tokens the identity endpoint has issued
    \* ---- calls of the functions that keep no state but LUT ----
    call,              \* the function called and its arguments ("none": no call yet)
    ret,               \* what the call returned or raised
    LUT,               \* the global LUT of the scl_mask module (<<>>: None)
    \* ---- fetch_all_products ----
    chain,             \* the catalogue's answer to each page of the latest query
    gets,              \* history: the pages it fetched, in order
    table,             \* the DataFrame it returned, as the list of its rows
    fpc,               \* the latest call: "call", "returned" or "raised"
    \* ---- download_s2_scenes ----
    years_n,           \* len(years): one window per year
    creds_ok,          \* whether _fill_creds can resolve username and password
    rpc,               \* position of download_s2_scenes
    queries,           \* history: the windows queried, in order
    all_rows,          \* the list all_rows: one table per window queried
    products,          \* the DataFrame products, as the list of its rows
    row_i,             \* the row of products the loop is at
    sess,              \* the session: "none", "open" or "closed"
    opened,            \* history: sessions constructed
    token_reqs,        \* history: token requests sent
    net,               \* history: the kinds of outbound request issued
    scene_targets,     \* len(targets) of the scene at hand (None: not resolved)
    queued,            \* transfers submitted to the pool and not started
    active,            \* transfers in progress
    scene_failures,    \* failures of the download_s2_targets call at hand
    fetch_raised,      \* a transfer of the call at hand raised
    results,           \* the list results
    error              \* the exception that ended the run ("" if none)

chooseVars == <<target_res, available, chosen, cpc>>

inputVars == <<bands, include_scl, targets>>

fsVars == <<final, part, content>>

workerVars == <<tpc, remote_size, expected_bytes, bytes_written, handle, status, ops>>

mainVars == <<main_pc, consumed, failures>>

fetchVars == <<inputVars, run, fsVars, pre_final, workerVars, mainVars, prev_ok>>

authVars == <<token_cache, now, refresh_lock, headers, constructed, apc, ases, caller,
              gat_now, new_tok, sends, grants, last, ops_left, issued>>

pureVars == <<call, ret, LUT>>

pageVars == <<chain, gets, table, fpc>>

runVars == <<years_n, creds_ok, rpc, queries, all_rows, products, row_i, sess, opened,
             token_reqs, net, scene_targets, queued, active, scene_failures,
             fetch_raised, results, error>>

workflowVars == <<pureVars, pageVars, runVars>>

vars == <<chooseVars, fetchVars, authVars, workflowVars>>

(***************************************************************************)
(* Helpers on sequences and sets of integers.                              *)
(***************************************************************************)
SeqToSet(s) == {s[i] : i \in DOMAIN s}

SetMin(S) == CHOOSE x \in S : \A y \in S : x <= y

SetMax(S) == CHOOSE x \in S : \A y \in S : x >= y

\* Python's sorted(set(xs)): ascending, duplicates removed
RECURSIVE SortedSet(_)
SortedSet(S) ==
    IF S = {} THEN <<>>
    ELSE LET m == SetMin(S) IN <<m>> \o SortedSet(S \ {m})

\* Python's `x in list`
InList(x, s) == \E i \in DOMAIN s : s[i] = x

\* Python's max(list) and min(list) on a nonempty list, by a left-to-right scan
RECURSIVE ListMax(_)
ListMax(s) ==
    IF Len(s) = 1 THEN s[1]
    ELSE LET r == ListMax(Tail(s)) IN IF s[1] >= r THEN s[1] ELSE r

RECURSIVE ListMin(_)
ListMin(s) ==
    IF Len(s) = 1 THEN s[1]
    ELSE LET r == ListMin(Tail(s)) IN IF s[1] <= r THEN s[1] ELSE r

\* all sequences over S of length 0..n
SeqsUpTo(S, n) == UNION {[1..k -> S] : k \in 0..n}

(***************************************************************************)
(* The parts of the state a specification leaves alone.                    *)
(***************************************************************************)
ChooseIdle ==
    /\ target_res = 0
    /\ available = <<>>
    /\ chosen = NoneVal
    /\ cpc = "idle"

FetchIdle ==
    /\ bands = <<>>
    /\ include_scl = FALSE
    /\ targets = <<>>
    /\ run = 1
    /\ final = <<>>
    /\ part = <<>>
    /\ content = <<>>
    /\ pre_final = <<>>
    /\ tpc = <<>>
    /\ remote_size = <<>>
    /\ expected_bytes = <<>>
    /\ bytes_written = <<>>
    /\ handle = <<>>
    /\ status = <<>>
    /\ ops = <<>>
    /\ main_pc = "idle"
    /\ consumed = {}
    /\ failures = <<>>
    /\ prev_ok = {}

AuthIdle ==
    /\ token_cache = <<>>
    /\ now = 0
    /\ refresh_lock = 0
    /\ headers = <<>>
    /\ constructed = {}
    /\ apc = <<>>
    /\ ases = <<>>
    /\ caller = <<>>
    /\ gat_now = <<>>
    /\ new_tok = <<>>
    /\ sends = <<>>
    /\ grants = <<>>
    /\ last = <<>>
    /\ ops_left = 0
    /\ issued = 0

WorkflowIdle ==
    /\ call = [fn |-> "none"]
    /\ ret = [fn |-> "none"]
    /\ LUT = <<>>
    /\ chain = <<>>
    /\ gets = <<>>
    /\ table = <<>>
    /\ fpc = "idle"
    /\ years_n = 0
    /\ creds_ok = FALSE
    /\ rpc = "idle"
    /\ queries = <<>>
    /\ all_rows = <<>>
    /\ products = <<>>
    /\ row_i = 0
    /\ sess = "none"
    /\ opened = 0
    /\ token_reqs = 0
    /\ net = {}
    /\ scene_targets = NoneVal
    /\ queued = {}
    /\ active = {}
    /\ scene_failures = <<>>
    /\ fetch_raised = FALSE
    /\ results = <<>>
    /\ error = ""

(***************************************************************************)
(* choose_best_resolution                                                  *)
(***************************************************************************)
\* a slip that would pick the finest of the finer-or-equal tiers
choose_best_resolution_finest(target, avail_iter) ==
    LET avail == SortedSet(SeqToSet(avail_iter))
        finer_or_equal == SelectSeq(avail, LAMBDA r : r <= target)
    IN  IF avail = <<>> THEN NoneVal
        ELSE IF InList(target, avail) THEN target
        ELSE IF finer_or_equal # <<>> THEN ListMin(finer_or_equal)
        ELSE ListMin(avail)

choose_best_resolution(target, avail_iter) ==
    LET avail == SortedSet(SeqToSet(avail_iter))
        finer_or_equal == SelectSeq(avail, LAMBDA r : r <= target)
    IN  IF avail = <<>> THEN NoneVal
        ELSE IF InList(target, avail) THEN target
        ELSE IF finer_or_equal # <<>> THEN ListMax(finer_or_equal)
        ELSE ListMin(avail)

ChooseInit ==
    /\ target_res \in 0..(MaxTier + 1)
    /\ available \in SeqsUpTo(1..MaxTier, MaxAvailLen)
    /\ chosen = NoneVal
    /\ cpc = "call"
    /\ FetchIdle
    /\ AuthIdle
    /\ WorkflowIdle

ChooseCall ==
    /\ cpc = "call"
    /\ chosen' = choose_best_resolution(target_res, available)
    /\ cpc' = "done"
    /\ UNCHANGED <<target_res, available>>
    /\ UNCHANGED <<fetchVars, authVars, workflowVars>>

ChooseNext == ChooseCall

SpecChoose == ChooseInit /\ [][ChooseNext]_vars

(***************************************************************************)
(* C1: choose_best_resolution is total on nonempty A and follows the       *)
(* reference rule: the result is a member of A; it is T if T is in A;      *)
(* otherwise the largest member of A that is <= T if there is one;         *)
(* otherwise the smallest member of A.  It is None only for empty A.       *)
(***************************************************************************)
C1_ChooseMatchesRule ==
    cpc = "done" =>
        LET A == SeqToSet(available)
            T == target_res
            below == {a \in A : a <= T}
        IN  /\ (A = {}) <=> (chosen = NoneVal)
            /\ A # {} =>
                /\ chosen \in A
                /\ T \in A => chosen = T
                /\ (T \notin A /\ below # {}) => chosen = SetMax(below)
                /\ (T \notin A /\ below = {}) => chosen = SetMin(A)

\* the call has returned in the fallback case: T not available, some tier below
\* T and some above it, at least two candidates below
C1_Witness ==
    /\ cpc = "done"
    /\ target_res \notin SeqToSet(available)
    /\ Cardinality({a \in SeqToSet(available) : a <= target_res}) >= 2
    /\ chosen = SetMax({a \in SeqToSet(available) : a <= target_res})

(***************************************************************************)
(* The scene layout resolver: _select_band_file and select_s2_targets.     *)
(* A node name is a record: a band file "..._<band>_<res>m.jp2" is         *)
(* [band, res], any other file is [file].  A directory "R<res>m" is        *)
(* [rdir |-> res].                                                         *)
(***************************************************************************)
Jp2(band, res) == [band |-> band, res |-> res]

\* n.get("Name", "").endswith(f"_{band}_{res}m.jp2")
EndsWithSuffix(name, band, res) ==
    /\ "band" \in DOMAIN name
    /\ name.band = band
    /\ name.res = res

ResDir(res) == [rdir |-> res]

\* the first element of a list that satisfies Test: next((n for n in ...), None)
RECURSIVE FirstHit(_, _, _)
FirstHit(nodes, band, res) ==
    IF nodes = <<>> THEN <<>>
    ELSE IF EndsWithSuffix(Head(nodes), band, res) THEN <<Head(nodes)>>
    ELSE FirstHit(Tail(nodes), band, res)

\* the resolutions, in the order of the dict nodes_by_res, that list the band
available_for_band(band, res_order, nodes_by_res) ==
    SelectSeq(res_order,
              LAMBDA res : \E k \in DOMAIN nodes_by_res[res] :
                               EndsWithSuffix(nodes_by_res[res][k], band, res))

\* _select_band_file: <<chosen resolution or None, the targets it appends>>
select_band_file(band, target_res_m, res_order, nodes_by_res, safe_root, granule_dir) ==
    LET avail == available_for_band(band, res_order, nodes_by_res)
    IN  IF avail = <<>> THEN <<NoneVal, <<>>>>
        ELSE LET chosen_res == choose_best_resolution(target_res_m, avail)
                 hit == FirstHit(nodes_by_res[chosen_res], band, chosen_res)
             IN  IF hit # <<>>
                 THEN <<chosen_res,
                        << <<safe_root, "GRANULE", granule_dir, "IMG_DATA",
                             ResDir(chosen_res), hit[1]>> >> >>
                 ELSE <<chosen_res, <<>>>>

\* the loop `for band in bands`, appending to targets
RECURSIVE select_bands(_, _, _, _, _, _)
select_bands(bs, target_res_m, res_order, nodes_by_res, safe_root, granule_dir) ==
    IF bs = <<>> THEN <<>>
    ELSE select_band_file(Head(bs), target_res_m, res_order, nodes_by_res,
                          safe_root, granule_dir)[2]
         \o select_bands(Tail(bs), target_res_m, res_order, nodes_by_res,
                         safe_root, granule_dir)

\* a slip that would add the scene metadata only under `if granule_dir:`
select_s2_targets_in_granule_only(bs, target_res_m, scl, possible_resolutions, nodes_by_res, safe_root, granule_dir, granule_children) ==
    IF granule_dir = "" THEN <<>>
    ELSE select_bands(bs, target_res_m, SortedSet(possible_resolutions), nodes_by_res,
                      safe_root, granule_dir)
         \o << <<safe_root, "MTD_MSIL2A.xml">> >>

\* select_s2_targets: the list targets.  granule_dir is "" when none was found
\* (Python: `if granule_dir:`), granule_children the listing of the granule.
select_s2_targets(bs, target_res_m, scl, possible_resolutions, nodes_by_res, safe_root, granule_dir, granule_children) ==
    LET res_order == SortedSet(possible_resolutions)
        in_granule ==
            select_bands(bs, target_res_m, res_order, nodes_by_res, safe_root, granule_dir)
            \o (IF scl
                THEN select_band_file("SCL", target_res_m, res_order, nodes_by_res,
                                      safe_root, granule_dir)[2]
                ELSE <<>>)
            \o (IF \E k \in DOMAIN granule_children : granule_children[k] = "MTD_TL.xml"
                THEN << <<safe_root, "GRANULE", granule_dir, "MTD_TL.xml">> >>
                ELSE <<>>)
    IN  (IF granule_dir # "" THEN in_granule ELSE <<>>)
        \o << <<safe_root, "MTD_MSIL2A.xml">> >>

\* the body of every remote file
RemoteBytes == [k \in 1..RemoteSize |-> k]

\* the bytes of a path that has no file
NoFile == <<NoneVal>>

(***************************************************************************)
(* The remote scene the fetcher runs against, and the calls made.          *)
(***************************************************************************)
PossibleResolutions == {10, 20, 60}

\* the band lists a caller asks for
BandLists == {<<>>, <<"B02">>, <<"SCL">>}

\* the files a call may find under the output root: none, or at every final
\* path a file with these bytes (RemoteBytes: a complete earlier download)
PreExisting == {NoFile, RemoteBytes, SubSeq(RemoteBytes, 1, RemoteSize - 1)}

SafeRoot == "S2A_MSIL2A_N0500_T10VFU.SAFE"

GranuleDir == "L2A_T10VFU"

\* listing of <root>/GRANULE/<granule>/IMG_DATA/R<res>m
SceneNodes ==
    [res \in PossibleResolutions |->
        CASE res = 10 -> <<Jp2("B02", 10)>>
          [] res = 20 -> <<Jp2("B02", 20), Jp2("SCL", 20)>>
          [] OTHER    -> <<Jp2("SCL", 60)>>]

\* listing of <root>/GRANULE/<granule>
GranuleChildren == <<"IMG_DATA", "QI_DATA">>

\* the same target list is fetched twice in succession
Calls == {1, 2}

(***************************************************************************)
(* The file system.  A name (a final path, or its '.part' sibling) refers  *)
(* to an inode or to 0; an inode keeps its bytes while a name or an open   *)
(* file refers to it.  os.path.join of the segments is one-to-one on the   *)
(* targets of the model, so a final path is named by its segments.         *)
(***************************************************************************)

Range(f) == {f[x] : x \in DOMAIN f}

Idx == DOMAIN targets

Paths == SeqToSet(targets)

FirstIndex(p) == SetMin({i \in Idx : targets[i] = p})

\* the inode open(tmp, "wb") creates for target i
NewInode(i) == i

\* the inodes of the files a call finds when it starts
PreFinalInode(p) == Len(targets) + FirstIndex(p)

PrePartInode(p) == 2 * Len(targets) + FirstIndex(p)

\* the inodes still referred to, with their bytes
Collected(c, f, pt, h) ==
    [id \in (Range(f) \cup Range(pt) \cup Range(h)) \ {0} |-> c[id]]

\* f.write(chunk) at offset off of a file with bytes c
WriteAt(c, off, b) ==
    LET padded == IF Len(c) < off THEN c \o [k \in 1..(off - Len(c)) |-> 0] ELSE c
    IN  IF Len(padded) = off THEN Append(padded, b)
        ELSE [padded EXCEPT ![off + 1] = b]

\* outpath.stat().st_size
StSize(p) == Len(content[final[p]])

BytesAt(p) == IF final[p] = 0 THEN NoFile ELSE content[final[p]]

(***************************************************************************)
(* HTTP responses, as far as the fetcher reads them.                       *)
(***************************************************************************)
\* a Content-Length header: absent, not a number, or a number
HeaderValues ==
    {[kind |-> "absent"], [kind |-> "invalid"]}
    \cup {[kind |-> "int", val |-> n] : n \in {RemoteSize - 1, RemoteSize}}

\* what session.head can do: raise, answer with an error status, or answer ok
HeadOutcomes ==
    {[kind |-> "exception"], [kind |-> "not_ok"]}
    \cup {[kind |-> "ok", cl |-> h] :
             h \in {[kind |-> "absent"], [kind |-> "invalid"],
                    [kind |-> "int", val |-> RemoteSize]}}

\* _get_remote_size
get_remote_size(resp) ==
    IF resp.kind = "exception" THEN NoneVal
    ELSE IF resp.kind = "not_ok" THEN NoneVal
    ELSE IF resp.cl.kind = "int" THEN resp.cl.val
    ELSE NoneVal

\* lines 84-96 of _download_one: the expected length of the body
expected_length(content_length, remote) ==
    IF content_length.kind # "absent"
    THEN IF content_length.kind = "int" THEN content_length.val ELSE remote
    ELSE remote

(***************************************************************************)
(* download_s2_targets                                                     *)
(***************************************************************************)
\* a call of download_s2_targets on the targets select_s2_targets gave, under an
\* output root that holds the files `found`
CallInit(found) ==
    /\ \E t \in {20} :
           targets = select_s2_targets(bands, t, include_scl, PossibleResolutions,
                                       SceneNodes, SafeRoot, GranuleDir, GranuleChildren)
    /\ run = 1
    /\ final = [p \in Paths |-> IF found = NoFile THEN 0 ELSE PreFinalInode(p)]
    /\ part = [p \in Paths |-> 0]
    /\ content = [id \in Range(final) \ {0} |-> found]
    /\ pre_final = [p \in Paths |-> found]
    /\ tpc = [i \in Idx |-> "queued"]
    /\ remote_size = [i \in Idx |-> NoneVal]
    /\ expected_bytes = [i \in Idx |-> NoneVal]
    /\ bytes_written = [i \in Idx |-> 0]
    /\ handle = [i \in Idx |-> 0]
    /\ status = [i \in Idx |-> ""]
    /\ ops = [i \in Idx |-> {}]
    /\ main_pc = "collect"
    /\ consumed = {}
    /\ failures = <<>>
    /\ prev_ok = {}
    /\ ChooseIdle
    /\ AuthIdle
    /\ WorkflowIdle

FetchInit ==
    /\ bands \in BandLists
    /\ include_scl \in BOOLEAN
    /\ \E found \in PreExisting : CallInit(found)

\* one target, fetched twice in succession
TwiceInit ==
    /\ bands = <<>>
    /\ include_scl = FALSE
    /\ \E found \in PreExisting : CallInit(found)

Running(i) == tpc[i] \in {"check", "get", "unlink", "open", "stream"}

Terminal(i) == tpc[i] \in {"done", "raised"}

\* _download_one returns (segments, st); its locals are gone
Returns(i, st, did) ==
    /\ tpc' = [tpc EXCEPT ![i] = "done"]
    /\ status' = [status EXCEPT ![i] = st]
    /\ ops' = [ops EXCEPT ![i] = @ \cup did]
    /\ remote_size' = [remote_size EXCEPT ![i] = NoneVal]
    /\ expected_bytes' = [expected_bytes EXCEPT ![i] = NoneVal]
    /\ bytes_written' = [bytes_written EXCEPT ![i] = 0]

\* an exception leaves _download_one; its locals are gone
Raises(i) ==
    /\ tpc' = [tpc EXCEPT ![i] = "raised"]
    /\ remote_size' = [remote_size EXCEPT ![i] = NoneVal]
    /\ expected_bytes' = [expected_bytes EXCEPT ![i] = NoneVal]
    /\ bytes_written' = [bytes_written EXCEPT ![i] = 0]
    /\ UNCHANGED <<status, ops>>

\* _download_one goes on to pc with these locals
Goes(i, pc, did, rs, eb, bw) ==
    /\ tpc' = [tpc EXCEPT ![i] = pc]
    /\ ops' = [ops EXCEPT ![i] = @ \cup did]
    /\ remote_size' = [remote_size EXCEPT ![i] = rs]
    /\ expected_bytes' = [expected_bytes EXCEPT ![i] = eb]
    /\ bytes_written' = [bytes_written EXCEPT ![i] = bw]
    /\ UNCHANGED status

\* the file system after the names and open files changed
FsBecomes(f, pt, h, c) ==
    /\ final' = f
    /\ part' = pt
    /\ handle' = h
    /\ content' = Collected(c, f, pt, h)

\* removing tmp is a write operation when there is such a file
UnlinkOp(i) == IF part[targets[i]] # 0 THEN {"write"} ELSE {}

\* the except clause of _download_one: the file is closed,
\* tmp.unlink(missing_ok=True), "write error".  Removing the file the worker
\* has just created or found absent does not fail.
ExceptHandler(i) ==
    /\ FsBecomes(final, [part EXCEPT ![targets[i]] = 0],
                 [handle EXCEPT ![i] = 0], content)
    /\ Returns(i, "write error", UnlinkOp(i))

\* a worker of the pool takes the next submitted target: lines 50-60
Start(i) ==
    /\ main_pc \in {"collect", "unwinding"}
    /\ tpc[i] = "queued"
    /\ \A j \in Idx : j < i => tpc[j] # "queued"
    /\ Cardinality({j \in Idx : Running(j)}) < MaxWorkers
    /\ \/ Raises(i)
       \/ \E resp \in HeadOutcomes :
             Goes(i, "check", {}, get_remote_size(resp), NoneVal, 0)
    /\ UNCHANGED <<inputVars, run, fsVars, pre_final, handle, mainVars, prev_ok>>
    /\ UNCHANGED <<chooseVars, authVars, workflowVars>>

\* a slip that would take any existing file for a complete one
cache_hit_any_size(remote, local_size) == TRUE

\* a slip that would invert the comparison of the sizes
cache_hit_inverted(remote, local_size) == local_size # remote

\* line 63: the sizes of the local file and of the remote one agree
cache_hit(remote, local_size) == local_size = remote

\* lines 61-72.  outpath.exists() has just found the file when stat() reads its
\* size, and no step of the program removes a final path.
CheckCache(i) ==
    /\ tpc[i] = "check"
    /\ LET p == targets[i]
       IN  IF final[p] # 0 /\ remote_size[i] # NoneVal
           THEN IF cache_hit(remote_size[i], StSize(p))
                THEN Returns(i, "ok", {})
                ELSE Goes(i, "get", {}, remote_size[i], NoneVal, 0)
           ELSE Goes(i, "get", {}, remote_size[i], NoneVal, 0)
    /\ UNCHANGED <<inputVars, run, fsVars, pre_final, handle, mainVars, prev_ok>>
    /\ UNCHANGED <<chooseVars, authVars, workflowVars>>

\* lines 74-96
Get(i) ==
    /\ tpc[i] = "get"
    /\ \/ Returns(i, "error: request failed", {"get"})
       \/ Returns(i, "error: HTTP", {"get"})
       \/ \E cl \in HeaderValues :
             Goes(i, "unlink", {"get"}, remote_size[i],
                  expected_length(cl, remote_size[i]), 0)
    /\ UNCHANGED <<inputVars, run, fsVars, pre_final, handle, mainVars, prev_ok>>
    /\ UNCHANGED <<chooseVars, authVars, workflowVars>>

\* lines 98-99
UnlinkStale(i) ==
    /\ tpc[i] = "unlink"
    /\ \/ /\ Raises(i)
          /\ UNCHANGED <<fsVars, handle>>
       \/ /\ FsBecomes(final, [part EXCEPT ![targets[i]] = 0], handle, content)
          /\ Goes(i, "open", UnlinkOp(i), remote_size[i], expected_bytes[i], 0)
    /\ UNCHANGED <<inputVars, run, pre_final, mainVars, prev_ok>>
    /\ UNCHANGED <<chooseVars, authVars, workflowVars>>

\* line 102: open(tmp, "wb") truncates the file of that name or creates one
OpenTmp(i) ==
    /\ tpc[i] = "open"
    /\ LET p == targets[i]
       IN  \/ ExceptHandler(i)
           \/ /\ IF part[p] # 0
                 THEN FsBecomes(final, part, [handle EXCEPT ![i] = part[p]],
                                [content EXCEPT ![part[p]] = <<>>])
                 ELSE FsBecomes(final, [part EXCEPT ![p] = NewInode(i)],
                                [handle EXCEPT ![i] = NewInode(i)],
                                (NewInode(i) :> <<>>) @@ content)
              /\ Goes(i, "stream", {"write"}, remote_size[i], expected_bytes[i], 0)
    /\ UNCHANGED <<inputVars, run, pre_final, mainVars, prev_ok>>
    /\ UNCHANGED <<chooseVars, authVars, workflowVars>>

\* lines 103-107: one more chunk of the body arrives and is written
WriteChunk(i) ==
    /\ tpc[i] = "stream"
    /\ bytes_written[i] < RemoteSize
    /\ content' = [content EXCEPT ![handle[i]] =
                       WriteAt(@, bytes_written[i], RemoteBytes[bytes_written[i] + 1])]
    /\ Goes(i, "stream", {"write"}, remote_size[i], expected_bytes[i],
            bytes_written[i] + 1)
    /\ UNCHANGED <<inputVars, run, final, part, pre_final, handle, mainVars, prev_ok>>
    /\ UNCHANGED <<chooseVars, authVars, workflowVars>>

\* lines 103-107, 127-130: iter_content or f.write raises
StreamRaise(i) ==
    /\ tpc[i] = "stream"
    /\ ExceptHandler(i)
    /\ UNCHANGED <<inputVars, run, pre_final, mainVars, prev_ok>>
    /\ UNCHANGED <<chooseVars, authVars, workflowVars>>

\* the length test of line 109
incomplete(expected, written) == expected # NoneVal /\ written # expected

\* lines 108-130: the body has ended (the server may end it early), the file is
\* closed, the length is verified and tmp is renamed into place; os.replace
\* raises when tmp is gone, and may raise otherwise
Finish(i) ==
    /\ tpc[i] = "stream"
    /\ LET p == targets[i]
           closed == [handle EXCEPT ![i] = 0]
       IN  IF incomplete(expected_bytes[i], bytes_written[i])
           THEN /\ FsBecomes(final, [part EXCEPT ![p] = 0], closed, content)
                /\ Returns(i, "error: incomplete download", UnlinkOp(i))
           ELSE \/ /\ part[p] # 0
                   /\ FsBecomes([final EXCEPT ![p] = part[p]],
                                [part EXCEPT ![p] = 0], closed, content)
                   /\ Returns(i, "ok", {"write"})
                \/ ExceptHandler(i)
    /\ UNCHANGED <<inputVars, run, pre_final, mainVars, prev_ok>>
    /\ UNCHANGED <<chooseVars, authVars, workflowVars>>

\* the entry download_s2_targets appends for a failed target
failure_entry(i) == [segments |-> targets[i], status |-> status[i]]

\* a slip that would report only the HTTP failures
is_failure_http_only(st) == st \in {"error: request failed", "error: HTTP"}

\* line 136
is_failure(st) == st # "ok"

\* lines 134-139: the as_completed loop takes a finished future
Collect(i) ==
    /\ main_pc = "collect"
    /\ i \notin consumed
    /\ Terminal(i)
    /\ IF tpc[i] = "raised"
       THEN /\ main_pc' = "unwinding"
            /\ UNCHANGED <<consumed, failures>>
       ELSE /\ consumed' = consumed \cup {i}
            /\ failures' = IF is_failure(status[i])
                           THEN Append(failures, failure_entry(i))
                           ELSE failures
            /\ UNCHANGED main_pc
    /\ UNCHANGED <<inputVars, run, fsVars, pre_final, workerVars, prev_ok>>
    /\ UNCHANGED <<chooseVars, authVars, workflowVars>>

\* lines 141-153: every future was handled, the pool is shut down, the list returned
Return ==
    /\ main_pc = "collect"
    /\ consumed = Idx
    /\ main_pc' = "returned"
    /\ UNCHANGED <<inputVars, run, fsVars, pre_final, workerVars, consumed, failures,
                   prev_ok>>
    /\ UNCHANGED <<chooseVars, authVars, workflowVars>>

\* line 132: fut.result() raised; the pool's __exit__ waits for every worker, then
\* the exception leaves download_s2_targets
Propagate ==
    /\ main_pc = "unwinding"
    /\ \A i \in Idx : Terminal(i)
    /\ main_pc' = "raised"
    /\ UNCHANGED <<inputVars, run, fsVars, pre_final, workerVars, consumed, failures,
                   prev_ok>>
    /\ UNCHANGED <<chooseVars, authVars, workflowVars>>

\* the caller fetches the same targets again, with the files the call left
NextCall ==
    /\ main_pc \in {"returned", "raised"}
    /\ run + 1 \in Calls
    /\ run' = run + 1
    /\ final' = [p \in Paths |-> IF final[p] = 0 THEN 0 ELSE PreFinalInode(p)]
    /\ part' = [p \in Paths |-> IF part[p] = 0 THEN 0 ELSE PrePartInode(p)]
    /\ content' =
           [id \in {PreFinalInode(p) : p \in {q \in Paths : final[q] # 0}}
                   \cup {PrePartInode(p) : p \in {q \in Paths : part[q] # 0}} |->
               IF \E p \in Paths : final[p] # 0 /\ id = PreFinalInode(p)
               THEN content[final[CHOOSE p \in Paths : final[p] # 0 /\ id = PreFinalInode(p)]]
               ELSE content[part[CHOOSE p \in Paths : part[p] # 0 /\ id = PrePartInode(p)]]]
    /\ pre_final' = [p \in Paths |-> BytesAt(p)]
    /\ tpc' = [i \in Idx |-> "queued"]
    /\ remote_size' = [i \in Idx |-> NoneVal]
    /\ expected_bytes' = [i \in Idx |-> NoneVal]
    /\ bytes_written' = [i \in Idx |-> 0]
    /\ handle' = [i \in Idx |-> 0]
    /\ status' = [i \in Idx |-> ""]
    /\ ops' = [i \in Idx |-> {}]
    /\ main_pc' = "collect"
    /\ consumed' = {}
    /\ failures' = <<>>
    /\ prev_ok' = {i \in Idx : tpc[i] = "done" /\ status[i] = "ok"}
    /\ UNCHANGED inputVars
    /\ UNCHANGED <<chooseVars, authVars, workflowVars>>

\* one call of download_s2_targets
CallNext ==
    \/ \E i \in Idx : Start(i)
    \/ \E i \in Idx : CheckCache(i)
    \/ \E i \in Idx : Get(i)
    \/ \E i \in Idx : UnlinkStale(i)
    \/ \E i \in Idx : OpenTmp(i)
    \/ \E i \in Idx : WriteChunk(i)
    \/ \E i \in Idx : StreamRaise(i)
    \/ \E i \in Idx : Finish(i)
    \/ \E i \in Idx : Collect(i)
    \/ Return
    \/ Propagate

FetchNext == CallNext

TwiceNext ==
    \/ CallNext
    \/ NextCall

\* one call of download_s2_targets on the targets of a scene
Spec == FetchInit /\ [][FetchNext]_vars

\* one target fetched by two successive calls
SpecTwice == TwiceInit /\ [][TwiceNext]_vars

(***************************************************************************)
(* cdse_auth.py: get_access_token and AutoRefreshSession.  A token is the  *)
(* number of its grant; 0 stands for a missing entry of the cache.         *)
(***************************************************************************)
\* line 115 and 123: a token must live 60 s longer than now
ExpiryMargin == 60

\* j.get("expires_in", 3600)
DefaultExpiresIn == 3600

Threads == 1..NThreads

Sessions == 1..NSessions

\* "expires_in" of a grant: short-lived, or absent
ExpiresInChoices == {ExpiryMargin, DefaultExpiresIn}

\* the refresh token of a grant's answer: none (and then no "refresh_expires_in"
\* either), or one with its lifetime ("refresh_expires_in" absent or 0, or long-lived)
RefreshTokenChoices ==
    {[has |-> FALSE, expires_in |-> 0]}
    \cup {[has |-> TRUE, expires_in |-> x] : x \in {0, DefaultExpiresIn}}

\* what super().request gives: a response with that status, or (0) an exception
Responses == {0, 200, 401, 503}

NoCall == [kind |-> "none"]

AuthInit ==
    /\ token_cache = [access_token |-> 0, expires_at |-> 0, refresh_token |-> 0, refresh_expires_at |-> 0]
    /\ now = 0
    /\ refresh_lock = 0
    /\ headers = [s \in Sessions |-> 0]
    /\ constructed = {}
    /\ apc = [t \in Threads |-> "idle"]
    /\ ases = [t \in Threads |-> 0]
    /\ caller = [t \in Threads |-> ""]
    /\ gat_now = [t \in Threads |-> 0]
    /\ new_tok = [t \in Threads |-> 0]
    /\ sends = [t \in Threads |-> 0]
    /\ grants = [t \in Threads |-> 0]
    /\ last = [t \in Threads |-> NoCall]
    /\ ops_left = MaxOps
    /\ issued = 0
    /\ ChooseIdle
    /\ FetchIdle
    /\ WorkflowIdle

\* how a call of request ended
RequestEnd(first, n_sends, n_grants, result) ==
    [kind |-> "request", first |-> first, sends |-> n_sends, grants |-> n_grants,
     result |-> result]

\* a slip that would never reuse the cached token
token_fresh_never(cache, t_now, force_refresh) == FALSE

\* line 115: the cached token is still good
token_fresh(cache, t_now, force_refresh) ==
    cache.access_token # 0 /\ cache.expires_at > t_now + ExpiryMargin /\ ~force_refresh

\* a slip that would use a refresh token whatever its expiry
refresh_usable_any_age(cache, t_now) == cache.refresh_token # 0

\* line 123: the refresh token can be used
refresh_usable(cache, t_now) ==
    cache.refresh_token # 0 /\ cache.refresh_expires_at > t_now + ExpiryMargin

\* what _now() can return: the previous reading, or a later time
ClockReadings == {now + d : d \in {0, ExpiryMargin}} \cap (0..(MaxTicks * ExpiryMargin))

\* the record of a call that ended is kept for one step; the first response of a
\* call in progress is kept until the call ends
Forget == [u \in Threads |-> IF last[u].kind = "pending" THEN last[u] ELSE NoCall]

\* a call of __init__ or of request ends, by return or by exception, with this
\* record of it; its locals are gone
Ends(t, record) ==
    /\ apc' = [apc EXCEPT ![t] = "idle"]
    /\ last' = [Forget EXCEPT ![t] = record]
    /\ ases' = [ases EXCEPT ![t] = 0]
    /\ caller' = [caller EXCEPT ![t] = ""]
    /\ gat_now' = [gat_now EXCEPT ![t] = 0]
    /\ new_tok' = [new_tok EXCEPT ![t] = 0]
    /\ sends' = [sends EXCEPT ![t] = 0]
    /\ grants' = [grants EXCEPT ![t] = 0]

\* a thread that runs no call can make one.  Idle threads are alike, so the one
\* of lowest number makes the next call.
CanCall(t) ==
    /\ apc[t] = "idle"
    /\ \A u \in Threads : u < t => apc[u] # "idle"

\* AutoRefreshSession(credentials, token_cache): __init__ up to the call of line 165.
\* Sessions are numbered in the order their construction begins.
Construct(t, s) ==
    /\ CanCall(t)
    /\ ops_left > 0
    /\ s \notin constructed
    /\ \A u \in Threads : ases[u] # s
    /\ \A r \in Sessions : r < s => r \in constructed \/ \E u \in Threads : ases[u] = r
    /\ apc' = [apc EXCEPT ![t] = "gat"]
    /\ ases' = [ases EXCEPT ![t] = s]
    /\ caller' = [caller EXCEPT ![t] = "init"]
    /\ last' = Forget
    /\ ops_left' = ops_left - 1
    /\ UNCHANGED <<token_cache, now, refresh_lock, headers, constructed, gat_now,
                   new_tok, sends, grants, issued>>
    /\ UNCHANGED <<chooseVars, fetchVars, workflowVars>>

\* a slip that would take a 503 for an expired token too
needs_refresh_on_error(status_code) == status_code \in {401, 503}

\* line 180
needs_refresh(status_code) == status_code = 401

\* request, lines 179-180 and 187: the first super().request
Request(t, s) ==
    /\ CanCall(t)
    /\ ops_left > 0
    /\ s \in constructed
    /\ ops_left' = ops_left - 1
    /\ \E resp \in Responses :
          IF resp # 0 /\ needs_refresh(resp)
          THEN /\ apc' = [apc EXCEPT ![t] = "lock"]
               /\ ases' = [ases EXCEPT ![t] = s]
               /\ caller' = [caller EXCEPT ![t] = "request"]
               /\ sends' = [sends EXCEPT ![t] = 1]
               /\ last' = [Forget EXCEPT ![t] = [kind |-> "pending", first |-> resp,
                                                  token |-> headers[s]]]
               /\ UNCHANGED <<gat_now, new_tok, grants>>
          ELSE Ends(t, RequestEnd(resp, 1, 0, resp))
    /\ UNCHANGED <<token_cache, now, refresh_lock, headers, constructed, issued>>
    /\ UNCHANGED <<chooseVars, fetchVars, workflowVars>>

\* line 183: with AutoRefreshSession._refresh_lock
Acquire(t) ==
    /\ apc[t] = "lock"
    /\ refresh_lock = 0
    /\ refresh_lock' = t
    /\ apc' = [apc EXCEPT ![t] = "gat"]
    /\ last' = Forget
    /\ UNCHANGED <<token_cache, now, headers, constructed, ases, caller, gat_now,
                   new_tok, sends, grants, ops_left, issued>>
    /\ UNCHANGED <<chooseVars, fetchVars, workflowVars>>

\* get_access_token returns tok to line 165 or to line 184
GatReturn(t, tok) ==
    /\ new_tok' = [new_tok EXCEPT ![t] = tok]
    /\ apc' = [apc EXCEPT ![t] = IF caller[t] = "init" THEN "init_header"
                                 ELSE "set_header"]

\* get_access_token, lines 109-123: the clock is read, then the cache
GatStart(t) ==
    /\ apc[t] = "gat"
    /\ now' \in ClockReadings
    /\ gat_now' = [gat_now EXCEPT ![t] = now']
    /\ IF token_fresh(token_cache, now', caller[t] = "request")
       THEN GatReturn(t, token_cache.access_token)
       ELSE /\ apc' = [apc EXCEPT ![t] = IF refresh_usable(token_cache, now')
                                         THEN "refresh_grant" ELSE "password_grant"]
            /\ UNCHANGED new_tok
    /\ last' = Forget
    /\ UNCHANGED <<token_cache, refresh_lock, headers, constructed, ases, caller,
                   sends, grants, ops_left, issued>>
    /\ UNCHANGED <<chooseVars, fetchVars, workflowVars>>

\* lines 124-133: the refresh grant; an exception sends on to the password grant
RefreshGrant(t) ==
    /\ apc[t] = "refresh_grant"
    /\ \/ /\ apc' = [apc EXCEPT ![t] = "password_grant"]
          /\ UNCHANGED <<token_cache, new_tok, grants, issued>>
       \/ \E ein \in ExpiresInChoices, rtok \in RefreshTokenChoices :
             /\ token_cache' =
                    [access_token |-> issued + 1,
                     expires_at |-> gat_now[t] + ein,
                     refresh_token |-> IF rtok.has THEN issued + 1
                                       ELSE token_cache.refresh_token,
                     refresh_expires_at |-> IF rtok.has THEN gat_now[t] + rtok.expires_in
                                            ELSE token_cache.refresh_expires_at]
             /\ issued' = issued + 1
             /\ grants' = [grants EXCEPT ![t] = @ + 1]
             /\ GatReturn(t, issued + 1)
    /\ last' = Forget
    /\ UNCHANGED <<now, refresh_lock, headers, constructed, ases, caller, gat_now,
                   sends, ops_left>>
    /\ UNCHANGED <<chooseVars, fetchVars, workflowVars>>

\* a slip that would keep the lock when the password grant raises
PasswordGrant_keeps_lock(t) ==
    /\ apc[t] = "password_grant"
    /\ \/ /\ Ends(t, IF caller[t] = "request"
                     THEN RequestEnd(last[t].first, sends[t], grants[t], 0)
                     ELSE [kind |-> "init", result |-> 0])
          /\ UNCHANGED <<token_cache, issued, refresh_lock>>
       \/ \E ein \in ExpiresInChoices, rtok \in RefreshTokenChoices :
             /\ token_cache' =
                    [access_token |-> issued + 1,
                     expires_at |-> gat_now[t] + ein,
                     refresh_token |-> IF rtok.has THEN issued + 1 ELSE 0,
                     refresh_expires_at |-> gat_now[t] + rtok.expires_in]
             /\ issued' = issued + 1
             /\ grants' = [grants EXCEPT ![t] = @ + 1]
             /\ GatReturn(t, issued + 1)
             /\ last' = Forget
             /\ UNCHANGED <<refresh_lock, ases, caller, gat_now, sends>>
    /\ UNCHANGED <<now, headers, constructed, ops_left>>
    /\ UNCHANGED <<chooseVars, fetchVars, workflowVars>>

\* lines 136-151: the password grant.  It raises when no credentials are found or
\* the identity endpoint fails; the exception leaves the constructor, or leaves
\* request through the with block, which releases the lock.
PasswordGrant(t) ==
    /\ apc[t] = "password_grant"
    /\ \/ /\ Ends(t, IF caller[t] = "request"
                     THEN RequestEnd(last[t].first, sends[t], grants[t], 0)
                     ELSE [kind |-> "init", result |-> 0])
          /\ refresh_lock' = IF caller[t] = "request" THEN 0 ELSE refresh_lock
          /\ UNCHANGED <<token_cache, issued>>
       \/ \E ein \in ExpiresInChoices, rtok \in RefreshTokenChoices :
             /\ token_cache' =
                    [access_token |-> issued + 1,
                     expires_at |-> gat_now[t] + ein,
                     refresh_token |-> IF rtok.has THEN issued + 1 ELSE 0,
                     refresh_expires_at |-> gat_now[t] + rtok.expires_in]
             /\ issued' = issued + 1
             /\ grants' = [grants EXCEPT ![t] = @ + 1]
             /\ GatReturn(t, issued + 1)
             /\ last' = Forget
             /\ UNCHANGED <<refresh_lock, ases, caller, gat_now, sends>>
    /\ UNCHANGED <<now, headers, constructed, ops_left>>
    /\ UNCHANGED <<chooseVars, fetchVars, workflowVars>>

\* line 166 and the rest of __init__
InitHeader(t) ==
    /\ apc[t] = "init_header"
    /\ headers' = [headers EXCEPT ![ases[t]] = new_tok[t]]
    /\ constructed' = constructed \cup {ases[t]}
    /\ Ends(t, [kind |-> "init", result |-> 200])
    /\ UNCHANGED <<token_cache, now, refresh_lock, ops_left, issued>>
    /\ UNCHANGED <<chooseVars, fetchVars, workflowVars>>

\* a slip that would leave the with block without line 185
SetHeader_stale(t) ==
    /\ apc[t] = "set_header"
    /\ refresh_lock' = 0
    /\ apc' = [apc EXCEPT ![t] = "resend"]
    /\ last' = Forget
    /\ UNCHANGED <<token_cache, now, headers, constructed, ases, caller, gat_now, new_tok,
                   sends, grants, ops_left, issued>>
    /\ UNCHANGED <<chooseVars, fetchVars, workflowVars>>

\* line 185 and the end of the with block
SetHeader(t) ==
    /\ apc[t] = "set_header"
    /\ headers' = [headers EXCEPT ![ases[t]] = new_tok[t]]
    /\ refresh_lock' = 0
    /\ apc' = [apc EXCEPT ![t] = "resend"]
    /\ last' = Forget
    /\ UNCHANGED <<token_cache, now, constructed, ases, caller, gat_now, new_tok,
                   sends, grants, ops_left, issued>>
    /\ UNCHANGED <<chooseVars, fetchVars, workflowVars>>

\* lines 186-187: the request is sent again and whatever comes is the result
Resend(t) ==
    /\ apc[t] = "resend"
    /\ \E resp \in Responses :
          Ends(t, RequestEnd(last[t].first, sends[t] + 1, grants[t], resp))
    /\ UNCHANGED <<token_cache, now, refresh_lock, headers, constructed, ops_left, issued>>
    /\ UNCHANGED <<chooseVars, fetchVars, workflowVars>>

AuthNext ==
    \/ \E t \in Threads :
          \/ \E s \in Sessions : Construct(t, s) \/ Request(t, s)
          \/ Acquire(t)
          \/ GatStart(t)
          \/ RefreshGrant(t)
          \/ PasswordGrant(t)
          \/ InitHeader(t)
          \/ SetHeader(t)
          \/ Resend(t)

\* the same threads when every call that can take a step takes it: each token
\* request returns or times out, and a free lock is taken by a waiting thread
SpecAuthLive == AuthInit /\ [][AuthNext]_vars /\ WF_vars(AuthNext)

\* threads that construct sessions over one token cache and send requests
SpecAuth == AuthInit /\ [][AuthNext]_vars

C3_OneGrantAtATime ==
    Cardinality({t \in Threads : apc[t] \in {"refresh_grant", "password_grant"}}) <= 1

(***************************************************************************)
(* Claims about the fetcher.                                               *)
(***************************************************************************)
Failed(i) == tpc[i] = "done" /\ status[i] # "ok"

(***************************************************************************)
(* C4: partial-failure independence.  When download_s2_targets is over,    *)
(* every target has run to completion whatever happened to the others; the *)
(* list it returns holds exactly one entry for each target whose transfer  *)
(* failed and none for a target that ended "ok" (downloaded or cached), so *)
(* it is empty iff every target ended "ok".                                *)
(***************************************************************************)
C4_PartialFailureIndependence ==
    /\ main_pc \in {"returned", "raised"} => \A i \in Idx : Terminal(i)
    /\ main_pc = "returned" =>
          /\ \A i \in Idx : tpc[i] = "done"
          /\ Len(failures) = Cardinality({i \in Idx : Failed(i)})
          /\ \A i \in Idx :
                IF Failed(i)
                THEN Cardinality({k \in DOMAIN failures : failures[k] = failure_entry(i)})
                       = Cardinality({j \in Idx : Failed(j)
                                                  /\ failure_entry(j) = failure_entry(i)})
                ELSE \A k \in DOMAIN failures : failures[k].segments # targets[i]
                        \/ \E j \in Idx : Failed(j) /\ failure_entry(j) = failures[k]
          /\ (failures = <<>>) <=> (\A i \in Idx : status[i] = "ok")

\* three targets, the second failed while streaming, the others ended "ok",
\* and the list returned names the second only
C4_Witness ==
    /\ main_pc = "returned"
    /\ Len(targets) = 3
    /\ status[1] = "ok"
    /\ status[2] = "write error"
    /\ status[3] = "ok"
    /\ failures = <<failure_entry(2)>>

(***************************************************************************)
(* C5: download_s2_targets never raises because of one target: no          *)
(* exception of a step of one transfer leaves _download_one, and the call  *)
(* returns its failure list.                                               *)
(***************************************************************************)
C5_NeverRaises ==
    /\ \A i \in Idx : tpc[i] # "raised"
    /\ main_pc \notin {"unwinding", "raised"}

(***************************************************************************)
(* C6: the integrity check.  When a transfer ends with an expected length  *)
(* known and the bytes written differ from it, the transfer is a failure,  *)
(* its '.part' file is removed and the final path is left as it was; and a *)
(* file renamed into the final path by a transfer with a known expected    *)
(* length has exactly that length.                                         *)
(***************************************************************************)
C6_IntegrityCheck ==
    [][\A i \in Idx :
          (tpc[i] = "stream" /\ tpc'[i] = "done" /\ expected_bytes[i] # NoneVal) =>
              LET p == targets[i]
              IN  /\ bytes_written[i] # expected_bytes[i] =>
                        /\ status'[i] # "ok"
                        /\ part'[p] = 0
                        /\ final'[p] = final[p]
                  /\ status'[i] = "ok" =>
                        /\ final'[p] # 0
                        /\ Len(content'[final'[p]]) = expected_bytes[i]]_vars

(***************************************************************************)
(* C7: atomic publication.  At every moment a final path holds either what *)
(* it held when the call started or the complete byte stream of a finished *)
(* transfer: never a file that is still being written, nor bytes that are  *)
(* not a stream of the remote body.                                        *)
(***************************************************************************)
C7_AtomicPublication ==
    \A p \in Paths :
        \/ BytesAt(p) = pre_final[p]
        \/ /\ final[p] # 0
           /\ \A j \in Idx : handle[j] # final[p]
           /\ \E n \in 0..RemoteSize : content[final[p]] = SubSeq(RemoteBytes, 1, n)

(***************************************************************************)
(* C8: size-based cache hit.  A target whose final file exists with the    *)
(* size the HEAD probe gave ends "ok" with no GET and with no file         *)
(* created, written or renamed; when the file is absent, the sizes differ  *)
(* or the probe gave no length, the target goes on to be downloaded.       *)
(***************************************************************************)
C8_SizeBasedCacheHit ==
    [][\A i \in Idx :
          (tpc[i] = "check" /\ tpc'[i] # "check") =>
              LET p == targets[i]
              IN  IF final[p] # 0 /\ remote_size[i] # NoneVal
                     /\ Len(content[final[p]]) = remote_size[i]
                  THEN /\ tpc'[i] = "done"
                       /\ status'[i] = "ok"
                       /\ ops'[i] = {}
                       /\ UNCHANGED fsVars
                  ELSE /\ tpc'[i] = "get"
                       /\ status'[i] = ""]_vars

\* a target ended "ok" on a cache hit, and another one, whose probe gave no
\* length although its file was there, was downloaded
C8_Witness ==
    \E i, j \in Idx :
        /\ tpc[i] = "done" /\ status[i] = "ok" /\ ops[i] = {}
        /\ BytesAt(targets[i]) = pre_final[targets[i]]
        /\ pre_final[targets[j]] # NoFile
        /\ tpc[j] = "done" /\ status[j] = "ok" /\ ops[j] = {"get", "write"}

C10_OneWriterPerPath ==
    \A i, j \in Idx :
        (i # j /\ targets[i] = targets[j]) =>
            ~(tpc[i] \in {"unlink", "open", "stream"} /\ tpc[j] \in {"unlink", "open", "stream"})

(***************************************************************************)
(* C28: when get_access_token is called without force_refresh and the      *)
(* cache holds an access token that expires more than 60 seconds after the *)
(* clock reading, it returns that token, no grant is requested and the     *)
(* four fields of the cache are unchanged.                                 *)
(***************************************************************************)
C28_FreshTokenReused ==
    [][\A t \in Threads :
          (/\ apc[t] = "gat"
           /\ apc'[t] # "gat"
           /\ caller[t] = "init"
           /\ token_cache.access_token # 0
           /\ token_cache.expires_at > gat_now'[t] + 60) =>
              /\ apc'[t] = "init_header"
              /\ new_tok'[t] = token_cache.access_token
              /\ token_cache' = token_cache
              /\ issued' = issued
              /\ grants'[t] = grants[t]]_vars

\* a constructor got the token that the cache held, without a grant
C28_Witness ==
    \E t \in Threads :
        /\ apc[t] = "init_header"
        /\ caller[t] = "init"
        /\ grants[t] = 0
        /\ new_tok[t] # 0
        /\ new_tok[t] = token_cache.access_token

C30_OneRefreshForConcurrent401s ==
    \A t, u \in Threads :
        (/\ t # u
         /\ last[t].kind = "pending"
         /\ last[u].kind = "pending"
         /\ last[t].token = last[u].token) =>
            grants[t] + grants[u] <= 1

Null == "<None>"

\* the item has no such key
Absent == "<absent>"

\* the cell pandas makes for a key that other rows have: float('nan')
NaN == "<nan>"

\* the items the catalogue can return
RowChoices ==
    {[Id |-> "s1", Name |-> "S2A_T10VFU_1"],
     [Id |-> "s2", Name |-> "S2A_T10VFU_2"],
     [Id |-> Absent, Name |-> "S2A_T10VFU_1"],
     [Id |-> "s1", Name |-> Null],
     [Id |-> "s2", Name |-> Absent]}

\* the targets select_s2_targets resolves for a scene; MTD_MSIL2A.xml is always one
SceneTargets(scene_id) == IF scene_id = "s2" THEN MaxTargets ELSE 1

\* pd.DataFrame(items) and pd.concat: the frame has a column when some row has the key
HasColumn(rows, col) == \E k \in DOMAIN rows : rows[k][col] # Absent

\* row.get(col): the cell, NaN where the row lacks a key other rows have, and the
\* default None where the frame has no such column
Cell(rows, k, col) ==
    IF rows[k][col] # Absent THEN rows[k][col]
    ELSE IF HasColumn(rows, col) THEN NaN
    ELSE Null

\* line 168: `not value` holds of None and of "", not of NaN or another string
row_skipped(scene_id, scene_name) == scene_id \in {Null, ""} \/ scene_name \in {Null, ""}

RECURSIVE concat_unique(_)
\* a slip that would drop the rows whose scene another frame holds
concat_unique(frames) ==
    IF frames = <<>> THEN <<>>
    ELSE LET rest == concat_unique(Tail(frames))
         IN  SelectSeq(Head(frames),
                       LAMBDA r : \A j \in DOMAIN rest : rest[j].Id # r.Id) \o rest

RECURSIVE Concat(_)
\* pd.concat(all_rows, ignore_index=True)
Concat(frames) ==
    IF frames = <<>> THEN <<>> ELSE Head(frames) \o Concat(Tail(frames))

(***************************************************************************)
(* cdse_search.py: fetch_all_products.  The catalogue answers a query with *)
(* a chain of pages; a page is the status of its response, its "value"     *)
(* items (has_value: the key is there) and its "@odata.nextLink".          *)
(***************************************************************************)
PageChoices ==
    {[ok |-> FALSE, has_value |-> FALSE, value |-> <<>>],
     [ok |-> TRUE, has_value |-> FALSE, value |-> <<>>]}
    \cup {[ok |-> TRUE, has_value |-> TRUE, value |-> v] : v \in SeqsUpTo(RowChoices, 1)}

\* the chains of at most n pages that hold at most r items
Chains(n, r) ==
    {c \in SeqsUpTo(PageChoices, n) :
        c # <<>> /\ Len(Concat([k \in DOMAIN c |-> c[k].value])) <= r}

\* a slip that would stop at the first page
next_link_ignored(c, k) == 0

\* j.get("@odata.nextLink"): the page after page k, 0 when there is none
next_link(c, k) == IF k < Len(c) THEN k + 1 ELSE 0

\* a slip that would take every response for a success
raise_for_status_never(page) == FALSE

\* r.raise_for_status() raises
raise_for_status(page) == ~page.ok

RECURSIVE follow_pages(_, _, _, _)
\* lines 46-53: the loop `while url`, from page k on
follow_pages(c, k, acc, fetched) ==
    IF k = 0 THEN [raised |-> FALSE, table |-> acc, gets |-> fetched]
    ELSE IF raise_for_status(c[k])
         THEN [raised |-> TRUE, table |-> <<>>, gets |-> Append(fetched, k)]
         ELSE follow_pages(c, next_link(c, k),
                           acc \o (IF c[k].has_value THEN c[k].value ELSE <<>>),
                           Append(fetched, k))

\* fetch_all_products(url): whether it raised, the table, the pages fetched
fetch_all_products(c) == follow_pages(c, 1, <<>>, <<>>)

\* a slip that would forget the leap years
monthrange_no_leap(year, month) == <<31, 28, 31, 30, 31, 30, 31, 31, 30, 31, 30, 31>>[month]

\* calendar.monthrange(year, month)[1]
monthrange(year, month) ==
    IF month = 2 /\ year % 4 = 0 /\ (year % 100 # 0 \/ year % 400 = 0) THEN 29
    ELSE <<31, 28, 31, 30, 31, 30, 31, 31, 30, 31, 30, 31>>[month]

\* _safe_date_with_adjust(year, month, day, logger)
safe_date_with_adjust(year, month, day) ==
    IF ~(1 <= month /\ month <= 12)
    THEN [raised |-> "ValueError: invalid month", date |-> <<>>]
    ELSE IF day <= 0
    THEN [raised |-> "ValueError: invalid day", date |-> <<>>]
    ELSE IF day <= monthrange(year, month)
    THEN [raised |-> "", date |-> <<year, month, day>>]
    ELSE [raised |-> "", date |-> <<year, month, monthrange(year, month)>>]

\* a slip that would reject a window of one day
window_rejected_or_equal(start, end) ==
    \/ end[2] < start[2]
    \/ end[2] = start[2] /\ end[3] <= start[3]

\* download_s2.py line 98: end < start, two dates of the same year
window_rejected(start, end) ==
    \/ end[2] < start[2]
    \/ end[2] = start[2] /\ end[3] < start[3]

RunInit ==
    /\ call \in [fn : {"download_s2_scenes"},
                  years : SeqsUpTo({2019, 2020}, MaxWindows),
                  period : {<<<<6, 1>>, <<8, 31>>>>, <<<<2, 28>>, <<2, 28>>>>,
                            <<<<2, 30>>, <<2, 29>>>>, <<<<2, 29>>, <<2, 28>>>>,
                            <<<<8, 31>>, <<6, 1>>>>, <<<<6, 0>>, <<8, 31>>>>}]
    /\ ret = [fn |-> "none"]
    /\ LUT = <<>>
    /\ years_n = 0
    /\ creds_ok \in BOOLEAN
    /\ rpc = "start"
    /\ queries = <<>>
    /\ all_rows = <<>>
    /\ products = <<>>
    /\ row_i = 0
    /\ sess = "none"
    /\ opened = 0
    /\ token_reqs = 0
    /\ net = {}
    /\ scene_targets = NoneVal
    /\ queued = {}
    /\ active = {}
    /\ scene_failures = <<>>
    /\ fetch_raised = FALSE
    /\ results = <<>>
    /\ error = ""
    /\ ChooseIdle
    /\ FetchIdle
    /\ AuthIdle
    /\ chain = <<>>
    /\ gets = <<>>
    /\ table = <<>>
    /\ fpc = "idle"

\* the variables of the run that only the scene loop changes
sceneVars == <<row_i, scene_targets, queued, active, scene_failures, fetch_raised, results>>

\* the rest of the model
notRunVars == <<chooseVars, fetchVars, authVars, pureVars, pageVars>>

\* a slip that would leave the session open
with_exit_leaks(s) == s

\* line 159: leaving the with block closes the session
with_exit(s) == "closed"

\* an exception leaves download_s2_scenes
RunRaises(err) ==
    /\ rpc' = "raised"
    /\ error' = err

\* lines 86-102: the years and the date windows
Validate ==
    /\ rpc = "start"
    /\ LET start(k) == safe_date_with_adjust(call.years[k], call.period[1][1],
                                             call.period[1][2])
           end(k) == safe_date_with_adjust(call.years[k], call.period[2][1],
                                           call.period[2][2])
           failure(k) == IF start(k).raised # "" THEN start(k).raised
                         ELSE IF end(k).raised # "" THEN end(k).raised
                         ELSE IF window_rejected(start(k).date, end(k).date)
                              THEN "ValueError: period_end is before period_start"
                              ELSE ""
           bad == {k \in DOMAIN call.years : failure(k) # ""}
       IN  IF call.years = <<>>
           THEN /\ RunRaises("years must contain at least one year")
                /\ UNCHANGED <<years_n, call>>
           ELSE IF bad # {}
           THEN /\ RunRaises(failure(CHOOSE k \in bad : \A j \in bad : k <= j))
                /\ UNCHANGED <<years_n, call>>
           ELSE /\ rpc' = "query"
                /\ years_n' = Len(call.years)
                /\ call' = [fn |-> "download_s2_scenes"]
                /\ UNCHANGED error
    /\ UNCHANGED <<creds_ok, queries, all_rows, products, sess, opened,
                   token_reqs, net, sceneVars>>
    /\ UNCHANGED <<chooseVars, fetchVars, authVars, pageVars, ret, LUT>>

\* lines 125-142: the catalogue query of the next window
Query ==
    /\ rpc = "query"
    /\ Len(queries) < years_n
    /\ queries' = Append(queries, Len(queries) + 1)
    /\ net' = net \cup {"catalogue"}
    /\ \E c \in Chains(MaxPages, MaxRows - Len(Concat(all_rows))) :
          LET r == fetch_all_products(c)
          IN  /\ chain' = c
              /\ gets' = r.gets
              /\ table' = r.table
              /\ fpc' = IF r.raised THEN "raised" ELSE "returned"
              /\ IF r.raised
                 THEN /\ RunRaises("catalogue query failed")
                      /\ UNCHANGED all_rows
                 ELSE /\ all_rows' = Append(all_rows,
                                            [k \in DOMAIN r.table |->
                                                [Id |-> r.table[k].Id,
                                                 Name |-> r.table[k].Name,
                                                 window |-> Len(queries) + 1]])
                      /\ UNCHANGED <<rpc, error>>
    /\ UNCHANGED <<years_n, creds_ok, products, sess, opened, token_reqs, sceneVars>>
    /\ UNCHANGED <<chooseVars, fetchVars, authVars, pureVars>>

\* lines 144-151: the scene table; an empty one ends the run
ConcatProducts ==
    /\ rpc = "query"
    /\ Len(queries) = years_n
    /\ products' = Concat(all_rows)
    /\ rpc' = IF Concat(all_rows) = <<>> THEN "returned" ELSE "log"
    /\ chain' = <<>>
    /\ gets' = <<>>
    /\ table' = <<>>
    /\ fpc' = "idle"
    /\ UNCHANGED <<years_n, creds_ok, queries, all_rows, sess, opened, token_reqs, net,
                   sceneVars, error>>
    /\ UNCHANGED <<chooseVars, fetchVars, authVars, pureVars>>

\* lines 153-156: products["Name"] needs the column
LogProducts ==
    /\ rpc = "log"
    /\ IF HasColumn(products, "Name")
       THEN rpc' = "open" /\ UNCHANGED error
       ELSE RunRaises("KeyError: Name")
    /\ UNCHANGED <<years_n, creds_ok, queries, all_rows, products, sess, opened,
                   token_reqs, net, sceneVars>>
    /\ UNCHANGED notRunVars

\* lines 159-163: AutoRefreshSession(...), whose __init__ resolves the credentials
\* and then sends the password grant
OpenSession ==
    /\ rpc = "open"
    /\ IF ~creds_ok
       THEN /\ RunRaises("CDSE credentials are required")
            /\ UNCHANGED <<sess, opened, token_reqs, net, row_i>>
       ELSE /\ token_reqs' = token_reqs + 1
            /\ net' = net \cup {"token"}
            /\ \/ /\ RunRaises("token request failed")
                  /\ UNCHANGED <<sess, opened, row_i>>
               \/ /\ sess' = "open"
                  /\ opened' = opened + 1
                  /\ row_i' = 1
                  /\ rpc' = "row"
                  /\ UNCHANGED error
    /\ UNCHANGED <<years_n, creds_ok, queries, all_rows, products, scene_targets,
                   queued, active, scene_failures, fetch_raised, results>>
    /\ UNCHANGED notRunVars

\* lines 164-173: a row without Id or Name is skipped
SkipRow ==
    /\ rpc = "row"
    /\ row_i <= Len(products)
    /\ row_skipped(Cell(products, row_i, "Id"), Cell(products, row_i, "Name"))
    /\ row_i' = row_i + 1
    /\ UNCHANGED <<years_n, creds_ok, rpc, queries, all_rows, products, sess, opened,
                   token_reqs, net, scene_targets, queued, active, scene_failures,
                   fetch_raised, results, error>>
    /\ UNCHANGED notRunVars

\* lines 175-182: select_s2_targets lists the scene; find_scene_safe_directory and
\* find_granule_directory let a failed listing, or a scene without children, raise
Resolve ==
    /\ rpc = "row"
    /\ row_i <= Len(products)
    /\ ~row_skipped(Cell(products, row_i, "Id"), Cell(products, row_i, "Name"))
    /\ net' = net \cup {"listing"}
    /\ \/ /\ RunRaises("layout not resolved")
          /\ sess' = with_exit(sess)
          /\ UNCHANGED scene_targets
       \/ /\ scene_targets' = SceneTargets(Cell(products, row_i, "Id"))
          /\ rpc' = "submit"
          /\ UNCHANGED <<sess, error>>
    /\ UNCHANGED <<years_n, creds_ok, queries, all_rows, products, opened, token_reqs,
                   row_i, queued, active, scene_failures, fetch_raised, results>>
    /\ UNCHANGED notRunVars

\* cdse_s2_download.py line 133: every target is submitted to the pool
Submit ==
    /\ rpc = "submit"
    /\ queued' = {<<row_i, k>> : k \in 1..scene_targets}
    /\ rpc' = "fetch"
    /\ UNCHANGED <<years_n, creds_ok, queries, all_rows, products, sess, opened,
                   token_reqs, net, row_i, scene_targets, active, scene_failures,
                   fetch_raised, results, error>>
    /\ UNCHANGED notRunVars

\* a worker of the pool takes the transfer submitted first
StartTransfer(q) ==
    /\ q \in queued
    /\ \A o \in queued : o[1] > q[1] \/ (o[1] = q[1] /\ o[2] >= q[2])
    /\ Cardinality(active) < MaxWorkers
    /\ queued' = queued \ {q}
    /\ active' = active \cup {q}
    /\ net' = net \cup {"download"}
    /\ UNCHANGED <<years_n, creds_ok, rpc, queries, all_rows, products, sess, opened,
                   token_reqs, row_i, scene_targets, scene_failures, fetch_raised,
                   results, error>>
    /\ UNCHANGED notRunVars

\* _download_one ends: "ok", a failure status, or an exception
EndTransfer(a) ==
    /\ a \in active
    /\ active' = active \ {a}
    /\ \/ UNCHANGED <<scene_failures, fetch_raised>>
       \/ /\ scene_failures' = Append(scene_failures, a[2])
          /\ UNCHANGED fetch_raised
       \/ /\ fetch_raised' = TRUE
          /\ UNCHANGED scene_failures
    /\ UNCHANGED <<years_n, creds_ok, rpc, queries, all_rows, products, sess, opened,
                   token_reqs, net, row_i, scene_targets, queued, results, error>>
    /\ UNCHANGED notRunVars

\* a slip that would leave the pool without waiting for its workers
pool_not_waited(q, a) == TRUE

\* cdse_s2_download.py lines 132-139: the with block of the pool ends when every
\* submitted transfer has ended
pool_drained(q, a) == q = {} /\ a = {}

\* download_s2_targets returns its failures, or lets the exception of a transfer out
PoolExit ==
    /\ rpc = "fetch"
    /\ pool_drained(queued, active)
    /\ IF fetch_raised
       THEN /\ RunRaises("download raised")
            /\ sess' = with_exit(sess)
       ELSE /\ rpc' = "record"
            /\ UNCHANGED <<sess, error>>
    /\ UNCHANGED <<years_n, creds_ok, queries, all_rows, products, opened, token_reqs,
                   net, sceneVars>>
    /\ UNCHANGED notRunVars

\* lines 200-227: the record of the scene
Record ==
    /\ rpc = "record"
    /\ results' = Append(results,
                         [row |-> row_i,
                          scene_id |-> Cell(products, row_i, "Id"),
                          scene_name |-> Cell(products, row_i, "Name"),
                          window |-> products[row_i].window,
                          resolved |-> scene_targets,
                          n_targets |-> scene_targets,
                          n_failures |-> Len(scene_failures),
                          failures |-> scene_failures])
    /\ row_i' = row_i + 1
    /\ scene_targets' = NoneVal
    /\ scene_failures' = <<>>
    /\ rpc' = "row"
    /\ UNCHANGED <<years_n, creds_ok, queries, all_rows, products, sess, opened,
                   token_reqs, net, queued, active, fetch_raised, error>>
    /\ UNCHANGED notRunVars

\* lines 163 and 229-230: the with block closes the session, the ledger is returned
FinishRun ==
    /\ rpc = "row"
    /\ row_i > Len(products)
    /\ sess' = with_exit(sess)
    /\ rpc' = "returned"
    /\ UNCHANGED <<years_n, creds_ok, queries, all_rows, products, opened, token_reqs,
                   net, sceneVars, error>>
    /\ UNCHANGED notRunVars

RunNext ==
    \/ Validate
    \/ Query
    \/ ConcatProducts
    \/ LogProducts
    \/ OpenSession
    \/ SkipRow
    \/ Resolve
    \/ Submit
    \/ \E q \in queued : StartTransfer(q)
    \/ \E a \in active : EndTransfer(a)
    \/ PoolExit
    \/ Record
    \/ FinishRun

\* one run of download_s2_scenes
SpecRun == RunInit /\ [][RunNext]_vars

(***************************************************************************)
(* C11: scenes are processed strictly one after another: every transfer    *)
(* submitted or in progress belongs to the scene whose fetch the           *)
(* orchestrator is in, none is left when it resolves or fetches the next   *)
(* scene or ends, and at most MaxWorkers transfers are in progress.        *)
(***************************************************************************)
C11_ScenesOneAfterAnother ==
    /\ Cardinality(active) <= MaxWorkers
    /\ \A a \in active \cup queued : rpc = "fetch" /\ a[1] = row_i
    /\ rpc # "fetch" => active = {} /\ queued = {}

\* a later scene is being fetched by all the workers of the pool
C11_Witness ==
    /\ rpc = "fetch"
    /\ Len(results) >= 1
    /\ Cardinality(active) = MaxWorkers

C12_SceneFailureNeverRaises ==
    error \notin {"layout not resolved", "download raised"}

(***************************************************************************)
(* C13: the ledger holds exactly one record per catalogue row that has     *)
(* both an id and a name, in the order of the rows; a row missing either   *)
(* is skipped without raising and is never resolved; in each record        *)
(* n_targets is the number of resolved targets, n_failures the length of   *)
(* failures, and 0 <= n_failures <= n_targets.                             *)
(***************************************************************************)
C13_OneRecordPerCompleteRow ==
    LET complete(k) == /\ products[k].Id \notin {Absent, Null, ""}
                       /\ products[k].Name \notin {Absent, Null, ""}
    IN  /\ error # "KeyError: Name"
        /\ \A j \in DOMAIN results :
              /\ complete(results[j].row)
              /\ results[j].n_targets = results[j].resolved
              /\ results[j].n_failures = Len(results[j].failures)
              /\ 0 <= results[j].n_failures
              /\ results[j].n_failures <= results[j].n_targets
        /\ \A j \in 1..(Len(results) - 1) : results[j].row < results[j + 1].row
        /\ rpc \in {"submit", "fetch", "record"} => complete(row_i)
        /\ rpc = "returned" =>
              {results[j].row : j \in DOMAIN results}
                  = {k \in DOMAIN products : complete(k)}

(***************************************************************************)
(* C14: the windows are queried once each, in the order of the years; the  *)
(* scene table is the frames of the windows one after another with nothing *)
(* dropped; every row that has an id and a name gets its own record, so a  *)
(* scene returned by k windows is resolved and fetched k times.            *)
(***************************************************************************)
C14_OneQueryPerWindowNoDedup ==
    /\ Len(queries) <= years_n
    /\ \A k \in DOMAIN queries : queries[k] = k
    /\ Len(all_rows) <= Len(queries)
    /\ (products # <<>> \/ rpc = "returned") =>
          /\ Len(queries) = years_n
          /\ Len(all_rows) = years_n
          /\ \A k \in 1..(Len(products) - 1) :
                products[k].window <= products[k + 1].window
          /\ \A w \in DOMAIN all_rows :
                SelectSeq(products, LAMBDA r : r.window = w) = all_rows[w]
    /\ rpc = "returned" =>
          \A k \in DOMAIN products :
              (products[k].Id \in {"s1", "s2"} /\ products[k].Name \notin {Absent, Null})
                  => \E j \in DOMAIN results :
                        /\ results[j].row = k
                        /\ results[j].scene_id = products[k].Id
                        /\ results[j].window = products[k].window
                        /\ results[j].resolved = SceneTargets(products[k].Id)
                        /\ \A i \in DOMAIN results : results[i].row = k => i = j

\* a run returned after two windows returned the same scene: two records
C14_Witness ==
    /\ rpc = "returned"
    /\ Len(results) = 2
    /\ results[1].scene_id = results[2].scene_id
    /\ results[1].scene_name = results[2].scene_name
    /\ results[1].window = 1
    /\ results[2].window = 2

(***************************************************************************)
(* C15, as stated: every run that returns has opened exactly one session,  *)
(* with one initial token acquisition, and has closed it.                  *)
(***************************************************************************)
C15_OneSessionPerRun ==
    rpc = "returned" => opened = 1 /\ token_reqs = 1 /\ sess = "closed"

(***************************************************************************)
(* C15, amended: a run never opens more than one session; every listing    *)
(* and every download happens after the one session was opened and while   *)
(* it is open; a run that returns with a scene table that is not empty has *)
(* opened exactly one session, with one initial token acquisition, and has *)
(* closed it; a run that returns with an empty scene table has opened no   *)
(* session and acquired no token.                                          *)
(***************************************************************************)
C15_OneSessionPerRunWithScenes ==
    /\ opened <= 1
    /\ token_reqs <= 1
    /\ (net \cap {"listing", "download"} # {}) => opened = 1 /\ token_reqs = 1
    /\ (active # {} \/ queued # {}) => sess = "open"
    /\ rpc = "returned" /\ products # <<>> =>
          opened = 1 /\ token_reqs = 1 /\ sess = "closed"
    /\ rpc = "returned" /\ products = <<>> =>
          opened = 0 /\ token_reqs = 0 /\ sess = "none" /\ net \subseteq {"catalogue"}

\* a run returned a ledger after listings and downloads through its session
C15_Witness ==
    /\ rpc = "returned"
    /\ Len(results) >= 1
    /\ {"listing", "download"} \subseteq net
    /\ opened = 1
    /\ sess = "closed"

(***************************************************************************)
(* C16: a run that ends because no username or password can be resolved,   *)
(* or because the password file is insecure, has made no network request.  *)
(***************************************************************************)
C16_FatalErrorsBeforeNetwork ==
    error = "CDSE credentials are required" => net = {}

(***************************************************************************)
(* C17: when every page of the chain of a query answers with success,      *)
(* fetch_all_products fetches each page of the chain once, in the order of *)
(* the chain, and returns the items of the pages one after another (none   *)
(* when no page holds an item).                                            *)
(***************************************************************************)
C17_AllPagesInChainOrder ==
    (fpc # "idle" /\ \A k \in DOMAIN chain : chain[k].ok) =>
        /\ fpc = "returned"
        /\ gets = [j \in 1..Len(chain) |-> j]
        /\ table = Concat([k \in DOMAIN chain |-> chain[k].value])
        /\ Len(all_rows[Len(all_rows)]) = Len(table)

\* a chain of MaxPages pages with an item each was fetched whole
C17_Witness ==
    /\ fpc = "returned"
    /\ Len(chain) = MaxPages
    /\ gets = [j \in 1..MaxPages |-> j]
    /\ Len(table) = MaxPages

(***************************************************************************)
(* C18: when a page of a catalogue query answers with a non-success        *)
(* status, fetch_all_products raises and returns no table, the items of    *)
(* the earlier pages reach no frame, and the run ends there: it opens no   *)
(* session and downloads no scene.                                         *)
(***************************************************************************)
C18_FailedPageAbortsQuery ==
    /\ (\E k \in DOMAIN chain : ~chain[k].ok) =>
          /\ fpc = "raised"
          /\ table = <<>>
          /\ \E k \in DOMAIN chain :
                /\ ~chain[k].ok
                /\ gets = [j \in 1..k |-> j]
                /\ \A j \in 1..(k - 1) : chain[j].ok
          /\ rpc = "raised"
          /\ error = "catalogue query failed"
    /\ fpc = "raised" => \E k \in DOMAIN chain : ~chain[k].ok
    /\ error = "catalogue query failed" =>
          /\ rpc = "raised"
          /\ Len(all_rows) = Len(queries) - 1
          /\ products = <<>>
          /\ results = <<>>
          /\ opened = 0
          /\ net = {"catalogue"}

\* the second page of a query failed after a first page that held an item
C18_Witness ==
    /\ fpc = "raised"
    /\ Len(gets) = 2
    /\ chain[1].value # <<>>
    /\ Len(queries) = 2

(***************************************************************************)
(* cdse_auth.py: the credentials of the password grant.  A string is the   *)
(* sequence of its characters, <<>> the empty string or None; pw_file ""   *)
(* is CDSE_PASSWORD_FILE unset or empty; mode is st_mode's permission      *)
(* bits, NoneVal when the file does not exist.                             *)
(***************************************************************************)
CredChoices ==
    [has_username : BOOLEAN, username : {<<>>, <<"u">>}, env_user : {<<>>, <<"v">>},
     has_password : BOOLEAN, password : {<<>>, <<"a">>}, env_pw : {<<>>, <<"e">>},
     pw_file : {"", "/run/secrets/cdse"},
     mode : {384, 256, 416, 388, NoneVal},
     content : {<<>>, <<"\n">>, <<"f">>, <<" ", "f", "\n">>}]

\* a slip that would trust every file
insecure_never(mode) == FALSE

\* line 67: st_mode & (S_IRWXG | S_IRWXO), the six low permission bits
insecure(mode) == mode % 64 # 0

\* _fill_creds(creds), with what it did to the password file
fill_creds(e) ==
    LET user == IF e.username = <<>> /\ e.env_user # <<>> THEN e.env_user ELSE e.username
        has_user == e.has_username \/ (e.username = <<>> /\ e.env_user # <<>>)
        consult == e.password = <<>> /\ e.env_pw = <<>> /\ e.pw_file # ""
        inner == {k \in DOMAIN e.content : e.content[k] \notin {" ", "\n"}}
        lo == CHOOSE k \in inner : \A j \in inner : k <= j
        hi == CHOOSE k \in inner : \A j \in inner : j <= k
        stripped == IF inner = {} THEN <<>> ELSE SubSeq(e.content, lo, hi)
        failed == IF ~consult THEN ""
                  ELSE IF e.mode = NoneVal THEN "FileNotFoundError"
                  ELSE IF insecure(e.mode) THEN "insecure permissions"
                  ELSE ""
        pw == IF e.password # <<>> THEN e.password
              ELSE IF e.env_pw # <<>> THEN e.env_pw
              ELSE IF consult /\ failed = "" THEN stripped
              ELSE <<>>
    IN  [has_username |-> has_user, username |-> user,
         has_password |-> e.has_password \/ (e.password = <<>> /\ pw # <<>>),
         password |-> IF e.password = <<>> THEN pw ELSE e.password,
         stat |-> consult, read |-> consult /\ failed = "",
         raised |-> failed, grant |-> FALSE]

\* no function has been called
PureInit ==
    /\ WorkflowIdle
    /\ ChooseIdle
    /\ FetchIdle
    /\ AuthIdle

\* get_access_token lines 136-146: the password grant of a call with no usable token
PasswordGrantCreds ==
    /\ call.fn = "none"
    /\ \E e \in CredChoices :
          /\ ~e.has_username => e.username = <<>>
          /\ ~e.has_password => e.password = <<>>
          /\ call' = [fn |-> "get_access_token", env |-> e]
          /\ LET c == fill_creds(e)
             IN  ret' =
                   IF c.raised # "" THEN c
                   ELSE IF ~c.has_username \/ ~c.has_password
                        THEN [c EXCEPT !.raised = "CDSE credentials are required"]
                        ELSE [c EXCEPT !.grant = TRUE]
    /\ UNCHANGED LUT
    /\ UNCHANGED <<chooseVars, fetchVars, authVars, pageVars, runVars>>

NameChoices ==
    LET codes == {<<"N", "0", "4", "0", "0">>, <<"N", "0", "3", "9", "9">>,
                  <<"N", "0", "5", "0", "0">>, <<"N", "0", "4", "0">>,
                  <<"N", "0", "4", "0", "0", "0">>}
        head == <<"S", "2", "A">>
        tile == <<"T", "1", "0">>
    IN  [parts : {<<head>> \o m \o <<tile>> : m \in SeqsUpTo(codes, 2)}
                    \cup {<<<<"N", "0", "5", "0", "0">>, tile>>,
                          <<head, <<"N", "0", "5", "0", "0">>>>},
         safe : BOOLEAN]

\* a slip that would leave baseline 04.00 without the offset
pb_at_least_4_strict(hundredths) == hundredths > 400

\* line 294: pb >= 4.00, pb being the code divided by 100
pb_at_least_4(hundredths) == hundredths >= 400

\* get_pb_offset_from_jp2(band_jp2_path)
get_pb_offset_from_jp2(path) ==
    LET parents == [k \in 1..(Len(path) - 1) |-> path[Len(path) - k]]
        safe_at == {k \in DOMAIN parents : parents[k].safe}
        safe_dir == parents[CHOOSE k \in safe_at : \A j \in safe_at : k <= j]
        digits == <<"0", "1", "2", "3", "4", "5", "6", "7", "8", "9">>
        digit(ch) == (CHOOSE d \in DOMAIN digits : digits[d] = ch) - 1
        is_code(p) == /\ Len(p) = 5
                      /\ p[1] = "N"
                      /\ \A i \in 2..5 : \E d \in DOMAIN digits : digits[d] = p[i]
        found == {k \in 2..(Len(safe_dir.parts) - 1) : is_code(safe_dir.parts[k])}
        match == safe_dir.parts[CHOOSE k \in found : \A j \in found : k <= j]
        group == 1000 * digit(match[2]) + 100 * digit(match[3])
                     + 10 * digit(match[4]) + digit(match[5])
    IN  IF safe_at = {} THEN 0
        ELSE IF found = {} THEN 0
        ELSE IF pb_at_least_4(group) THEN 1000 ELSE 0

\* a band file below at most MaxDepth directories is given; the call returns
InferOffset ==
    /\ call.fn = "none"
    /\ \E dirs \in SeqsUpTo(NameChoices, MaxDepth) :
       \E file \in {[parts |-> <<<<"B", "0", "4">>>>, safe |-> FALSE],
                     [parts |-> <<<<"B">>, <<"N", "0", "5", "0", "0">>, <<"x">>>>,
                      safe |-> TRUE]} :
           /\ call' = [fn |-> "get_pb_offset_from_jp2", band_jp2_path |-> Append(dirs, file)]
           /\ ret' = [value |-> get_pb_offset_from_jp2(Append(dirs, file))]
    /\ UNCHANGED LUT
    /\ UNCHANGED <<chooseVars, fetchVars, authVars, pageVars, runVars>>

clip_nothing(x, lo, hi) == x

\* np.clip(tmp, lo, hi)
clip(x, lo, hi) == IF x < lo THEN lo ELSE IF x > hi THEN hi ELSE x

\* PB_OFFSET_CODE: pb_offset(in_ar, out_ar, dn_offset=dn_off, nodata=nd), the out_ar
pb_offset(in_ar, dn_off, nd) ==
    LET valid == [k \in DOMAIN in_ar |-> in_ar[k] # nd]
    IN  IF dn_off # 0 /\ (\E k \in DOMAIN in_ar : valid[k])
        THEN [k \in DOMAIN in_ar |->
                IF valid[k] THEN clip(in_ar[k] - dn_off, 0, 65534) ELSE in_ar[k]]
        ELSE in_ar

\* Path.with_suffix(suffix).name, suffix given as its parts
with_suffix(name, suffix) ==
    (IF Len(name) >= 2 THEN SubSeq(name, 1, Len(name) - 1) ELSE name) \o suffix

\* create_pb_offset_vrt(band_jp2_path, dn_offset, out_vrt_dir, dst_nodata): the VRT
create_pb_offset_vrt(band_jp2_path, dn_offset, out_vrt_dir, dst_nodata) ==
    [file |-> [dir |-> IF out_vrt_dir = Null THEN "~/.sentinel-py/temp" ELSE out_vrt_dir,
               name |-> with_suffix(band_jp2_path.name, <<"pb_offset", "vrt">>)],
     sources |-> <<band_jp2_path>>,
     pixelfunc |-> IF dn_offset = 0 THEN "none" ELSE "pb_offset",
     dn_offset |-> dn_offset,
     nodata |-> dst_nodata]

\* the bands a pipeline may be given
BandFiles ==
    [dir : {"S2A.SAFE/R20m", "out"},
     name : {<<"T06_B03_20m", "jp2">>, <<"T06_B03_20m">>, <<"T06_B03_20m", "pb_offset", "vrt">>}]

\* the offset VRT is created and a block of it is read
OffsetStage ==
    /\ call.fn = "none"
    /\ \E band \in BandFiles, dir \in {Null, "S2A.SAFE/R20m", "out"},
          d \in {0, 1, 1000, 0 - 1000}, nd \in {65535, 65534, 0, 1000, 0 - 1},
          block \in SeqsUpTo({0, 1, 999, 1000, 1001, 65534, 65535}, MaxPixels) :
          /\ block # <<>>
          /\ call' = [fn |-> "create_pb_offset_vrt", band_jp2_path |-> band,
                      dn_offset |-> d, out_vrt_dir |-> dir, dst_nodata |-> nd,
                      in_ar |-> block]
          /\ LET vrt == create_pb_offset_vrt(band, d, dir, nd)
             IN  ret' = [vrt |-> vrt,
                         out_ar |-> IF vrt.pixelfunc = "none" THEN block
                                    ELSE pb_offset(block, vrt.dn_offset, vrt.nodata)]
    /\ UNCHANGED LUT
    /\ UNCHANGED <<chooseVars, fetchVars, authVars, pageVars, runVars>>

(***************************************************************************)
(* C21: with a nonzero offset d the derived raster carries the pb_offset   *)
(* pixel function, which outputs nd for a pixel equal to nd and            *)
(* clamp(v - d, 0, 65534) for every other pixel v; with offset 0 it        *)
(* carries no pixel function and every pixel passes through.               *)
(***************************************************************************)
C21_OffsetTransform ==
    call.fn = "create_pb_offset_vrt" =>
        /\ DOMAIN ret.out_ar = DOMAIN call.in_ar
        /\ call.dn_offset = 0 =>
              ret.vrt.pixelfunc = "none" /\ ret.out_ar = call.in_ar
        /\ call.dn_offset # 0 =>
              /\ ret.vrt.pixelfunc = "pb_offset"
              /\ \A k \in DOMAIN call.in_ar :
                    LET v == call.in_ar[k]
                        x == v - call.dn_offset
                    IN  ret.out_ar[k] =
                          IF v = call.dst_nodata THEN call.dst_nodata
                          ELSE IF x < 0 THEN 0
                          ELSE IF x > 65534 THEN 65534
                          ELSE x

\* a block with a no-data pixel, a pixel below the offset and one above it
C21_Witness ==
    /\ call.fn = "create_pb_offset_vrt"
    /\ call.dn_offset = 1000
    /\ call.dst_nodata = 65535
    /\ call.in_ar = <<65535, 999>>
    /\ ret.out_ar = <<65535, 0>>

(***************************************************************************)
(* C22: whatever the no-data value and the offset, the offset stage never  *)
(* gives the no-data value to a pixel that did not have it.                *)
(***************************************************************************)
C22_SentinelReserved ==
    call.fn = "create_pb_offset_vrt" =>
        \A k \in DOMAIN call.in_ar :
            call.in_ar[k] # call.dst_nodata => ret.out_ar[k] # call.dst_nodata

(***************************************************************************)
(* s2_masking.py: MASK_CODE.  The module of the pixel function keeps the   *)
(* global LUT from one call of scl_mask to the next; classes is the set of *)
(* the codes in the kwarg "classes".                                       *)
(***************************************************************************)
\* scl_mask(in_ar, out_ar, nodata=nd, classes=classes): the out_ar and the LUT left
scl_mask(A, B, nd, classes, lut) ==
    LET built == IF lut = <<>> THEN <<classes>> ELSE lut
        mask == [k \in DOMAIN A |-> B[k] = 0 \/ B[k] > 11 \/ B[k] \in built[1]]
    IN  [out_ar |-> [k \in DOMAIN A |-> IF mask[k] THEN nd ELSE A[k]], LUT |-> built]

\* GDAL calls scl_mask on a block of the two sources
SclMask ==
    /\ \E A \in {<<5>>, <<65535>>}, B \in {<<0>>, <<3>>, <<8>>, <<11>>, <<12>>, <<255>>},
          nd \in {65535, 0}, classes \in SUBSET {3, 8} :
          LET r == scl_mask(A, B, nd, classes, LUT)
          IN  /\ call' = [fn |-> "scl_mask", in_ar |-> A, scl |-> B, nodata |-> nd,
                          classes |-> classes]
              /\ ret' = [out_ar |-> r.out_ar]
              /\ LUT' = r.LUT
    /\ UNCHANGED <<chooseVars, fetchVars, authVars, pageVars, runVars>>

SpecMask == PureInit /\ [][SclMask]_vars

(***************************************************************************)
(* C23: in every call of scl_mask, a pixel becomes the no-data value when  *)
(* its class is 0, above 11 or among the classes given to that call, and   *)
(* keeps its value otherwise.                                              *)
(***************************************************************************)
C23_MaskRule ==
    call.fn = "scl_mask" =>
        \A k \in DOMAIN call.in_ar :
            ret.out_ar[k] =
                IF call.scl[k] = 0 \/ call.scl[k] > 11 \/ call.scl[k] \in call.classes
                THEN call.nodata
                ELSE call.in_ar[k]

(***************************************************************************)
(* s2_masking.py: the mask stage.                                          *)
(***************************************************************************)
\* create_masked_vrt(band_vrt_path, scl_jp2_path, out_vrt_path): the files it touches
create_masked_vrt(band_vrt_path, scl_jp2_path, out_vrt_path) ==
    LET out == IF out_vrt_path = [dir |-> Null, name |-> <<>>]
               THEN [band_vrt_path EXCEPT !.name = @ \o <<"masked", "vrt">>]
               ELSE out_vrt_path
        tmp_vrt == [out EXCEPT !.name = @ \o <<"tmp">>]
    IN  [file |-> out,
         sources |-> <<band_vrt_path, scl_jp2_path>>,
         unlinked |-> {tmp_vrt},
         written |-> {tmp_vrt, out}]

\* the masked VRT is created
MaskStage ==
    /\ call.fn = "none"
    /\ LET files == [dir : {"out"},
                     name : {<<"B03", "pb_offset", "vrt">>, <<"B03", "pb_offset", "vrt", "tmp">>,
                             <<"SCL", "jp2">>, <<"B03", "masked", "vrt">>}]
       IN  \E band \in files, scl \in files, out \in files \cup {[dir |-> Null, name |-> <<>>]} :
               /\ call' = [fn |-> "create_masked_vrt", band_vrt_path |-> band,
                           scl_jp2_path |-> scl, out_vrt_path |-> out]
               /\ ret' = create_masked_vrt(band, scl, out)
    /\ UNCHANGED LUT
    /\ UNCHANGED <<chooseVars, fetchVars, authVars, pageVars, runVars>>

(***************************************************************************)
(* C25: the file that create_pb_offset_vrt writes is not its source band   *)
(* file, and no file that create_masked_vrt writes or removes is the       *)
(* offset-stage VRT or the classification file it reads.                   *)
(***************************************************************************)
C25_SourcesNeverOverwritten ==
    /\ call.fn = "create_pb_offset_vrt" => ret.vrt.file # call.band_jp2_path
    /\ call.fn = "create_masked_vrt" =>
          (ret.written \cup ret.unlinked) \cap {call.band_vrt_path, call.scl_jp2_path} = {}

(***************************************************************************)
(* utils.py and workflows/download_s2.py: dates.                           *)
(***************************************************************************)
\* a slip that would keep the endpoints and lose the wrap-around
in_season_window_no_wrap(d, start_md, end_md) ==
    /\ 100 * start_md[1] + start_md[2] <= 100 * d.month + d.day
    /\ 100 * d.month + d.day <= 100 * end_md[1] + end_md[2]

\* in_season_window(d, start_md, end_md); tuples compare element by element
in_season_window(d, start_md, end_md) ==
    LET md == <<d.month, d.day>>
        le(a, b) == a[1] < b[1] \/ (a[1] = b[1] /\ a[2] <= b[2])
    IN  IF le(start_md, end_md)
        THEN le(start_md, md) /\ le(md, end_md)
        ELSE le(start_md, md) \/ le(md, end_md)

\* in_season_window is called with a date and a window
InSeason ==
    /\ call.fn = "none"
    /\ LET mds == {1, 2, 7, 11, 12} \X {1, 10, 15, 28}
       IN  \E md \in mds, start_md \in mds, end_md \in mds :
               LET d == [year |-> 2020, month |-> md[1], day |-> md[2]]
               IN  /\ call' = [fn |-> "in_season_window", d |-> d,
                               start_md |-> start_md, end_md |-> end_md]
                   /\ ret' = [value |-> in_season_window(d, start_md, end_md)]
    /\ UNCHANGED LUT
    /\ UNCHANGED <<chooseVars, fetchVars, authVars, pageVars, runVars>>

(***************************************************************************)
(* C24: in_season_window is true exactly when start <= md <= end for a     *)
(* window with end >= start, and when md >= start or md <= end for a       *)
(* window that wraps, the endpoints included; for (11,1)-(2,28), December  *)
(* 15 and January 10 are inside and July 1 is outside.                     *)
(***************************************************************************)
C24_SeasonWindowMembership ==
    call.fn = "in_season_window" =>
        LET md == 100 * call.d.month + call.d.day
            start == 100 * call.start_md[1] + call.start_md[2]
            end == 100 * call.end_md[1] + call.end_md[2]
        IN  /\ end >= start => (ret.value <=> (start <= md /\ md <= end))
            /\ end < start => (ret.value <=> (md >= start \/ md <= end))
            /\ (start = 1101 /\ end = 228 /\ md \in {1215, 110}) => ret.value
            /\ (start = 1101 /\ end = 228 /\ md = 701) => ~ret.value

\* January 10 is inside the window from November 1 to February 28
C24_Witness ==
    /\ call.fn = "in_season_window"
    /\ call.start_md = <<11, 1>>
    /\ call.end_md = <<2, 28>>
    /\ call.d.month = 1
    /\ call.d.day = 10
    /\ ret.value

\* _safe_date_with_adjust is called
SafeDate ==
    /\ call.fn = "none"
    /\ \E year \in {1900, 2000, 2019, 2020}, month \in 0..13,
          day \in {0 - 1, 0, 1, 28, 29, 30, 31, 32, 40} :
          /\ call' = [fn |-> "_safe_date_with_adjust", year |-> year, month |-> month,
                      day |-> day]
          /\ ret' = safe_date_with_adjust(year, month, day)
    /\ UNCHANGED LUT
    /\ UNCHANGED <<chooseVars, fetchVars, authVars, pageVars, runVars>>

(***************************************************************************)
(* C26, as stated: for a month in 1..12 no error is raised; a day that is  *)
(* in the range of the month gives that date, every other day gives the    *)
(* last day of the month in that year.                                     *)
(***************************************************************************)
C26_OutOfRangeDayClamped ==
    (call.fn = "_safe_date_with_adjust" /\ call.month \in 1..12) =>
        LET leap == call.year % 4 = 0 /\ (call.year % 100 # 0 \/ call.year % 400 = 0)
            last_day == IF call.month \in {4, 6, 9, 11} THEN 30
                        ELSE IF call.month # 2 THEN 31
                        ELSE IF leap THEN 29 ELSE 28
        IN  /\ ret.raised = ""
            /\ ret.date = <<call.year, call.month,
                            IF 1 <= call.day /\ call.day <= last_day THEN call.day
                            ELSE last_day>>

(***************************************************************************)
(* C26, amended: for a month in 1..12, a day from 1 to the last day of the *)
(* month gives that date, a day above the last day gives the last day of   *)
(* the month in that year (leap years included) and no error is raised; a  *)
(* day of 0 or less is rejected with a ValueError.                         *)
(***************************************************************************)
C26_DayAboveLastClamped ==
    (call.fn = "_safe_date_with_adjust" /\ call.month \in 1..12) =>
        LET leap == call.year % 4 = 0 /\ (call.year % 100 # 0 \/ call.year % 400 = 0)
            last_day == IF call.month \in {4, 6, 9, 11} THEN 30
                        ELSE IF call.month # 2 THEN 31
                        ELSE IF leap THEN 29 ELSE 28
        IN  /\ call.day <= 0 => ret.raised = "ValueError: invalid day"
            /\ call.day >= 1 =>
                  /\ ret.raised = ""
                  /\ ret.date = <<call.year, call.month,
                                  IF call.day <= last_day THEN call.day ELSE last_day>>

\* day 30 of February 2000 became February 29
C26_Witness ==
    /\ call.fn = "_safe_date_with_adjust"
    /\ call.year = 2000
    /\ call.month = 2
    /\ call.day = 30
    /\ ret.date = <<2000, 2, 29>>

(***************************************************************************)
(* The transport under the requests of a run.  AutoRefreshSession mounts   *)
(* an adapter with a Retry policy (cdse_auth.py 168-176); the catalogue    *)
(* query is sent with a requests.Session() of its own (cdse_search.py 42), *)
(* whose adapter retries nothing.                                          *)
(***************************************************************************)
RetryTotal == 5

\* Retry(total=5, status_forcelist=..., allowed_methods=...)
retries ==
    [total |-> RetryTotal, status_forcelist |-> {429, 500, 502, 503, 504},
     allowed_methods |-> {"GET", "POST"}]

\* the policy of the adapter the session sends with
max_retries(session) ==
    IF session = "AutoRefreshSession" THEN retries
    ELSE [total |-> 0, status_forcelist |-> {}, allowed_methods |-> {}]

\* one request through the adapter: the server's answers are read in order, and
\* an answer is retried when the method is allowed, its status is in the
\* forcelist and retries are left
RECURSIVE urlopen(_, _, _, _)
urlopen(method, policy, left, answers) ==
    LET status_code == Head(answers)
        retried == method \in policy.allowed_methods /\ status_code \in policy.status_forcelist
    IN  IF ~retried THEN [sent |-> 1, status |-> status_code, exhausted |-> FALSE]
        ELSE IF left = 0 THEN [sent |-> 1, status |-> status_code, exhausted |-> TRUE]
        ELSE [urlopen(method, policy, left - 1, Tail(answers)) EXCEPT !.sent = @ + 1]

\* a request of a run: the catalogue page GET (cdse_search.py 48, called without
\* a session at download_s2.py 136), the node listing GET (cdse_s2_nodes.py
\* 84), the HEAD probe (cdse_s2_download.py 31) or the content GET (line 75).
\* The server answers k times with a transient status, then with a final one.
SendRequest ==
    /\ call.fn = "none"
    /\ \E site \in {[name |-> "catalogue page", method |-> "GET", session |-> "Session"],
                    [name |-> "node listing", method |-> "GET", session |-> "AutoRefreshSession"],
                    [name |-> "head probe", method |-> "HEAD", session |-> "AutoRefreshSession"],
                    [name |-> "content", method |-> "GET", session |-> "AutoRefreshSession"]},
          k \in 0..MaxTransient, transient \in retries.status_forcelist, last_status \in {200, 404} :
          LET answers == [i \in 1..(k + 1) |-> IF i <= k THEN transient ELSE last_status]
              policy == max_retries(site.session)
          IN  /\ call' = [fn |-> "request", site |-> site.name, answers |-> answers]
              /\ ret' = urlopen(site.method, policy, policy.total, answers)
    /\ UNCHANGED LUT
    /\ UNCHANGED <<chooseVars, fetchVars, authVars, pageVars, runVars>>

(***************************************************************************)
(* C31: every request of a run (catalogue page GET, node listing GET, HEAD *)
(* probe, content GET) that receives a status in {429, 500, 502, 503, 504} *)
(* is sent again by the transport, up to 5 retries, before the status is   *)
(* surfaced: after k transient answers the request has been sent           *)
(* min(k, 5) + 1 times, and the answer surfaced is the last one received.  *)
(***************************************************************************)
C31_TransientStatusRetried ==
    call.fn = "request" =>
        LET k == Len(call.answers) - 1
            sent == (IF k <= RetryTotal THEN k ELSE RetryTotal) + 1
        IN  /\ ret.sent = sent
            /\ ret.status = call.answers[sent]

(***************************************************************************)
(* The scene layout resolver against listings that can fail.  The names a  *)
(* GRANULE directory lists are strings; name.startswith("L2A_") and        *)
(* `tile in name` are tabulated on the names of the model.                 *)
(***************************************************************************)
\* a slip that would take the first "L2A_" granule whatever the tile
find_granule_directory_any_tile(root_children, granule_children, tile) ==
    LET any_L2A == {k \in DOMAIN granule_children :
                      granule_children[k] \in {"L2A_T10VFU_A035123", "L2A_T11ABC_A035123"}}
    IN  IF ~\E k \in DOMAIN root_children : root_children[k] = "GRANULE" THEN Null
        ELSE IF any_L2A # {} THEN granule_children[SetMin(any_L2A)]
        ELSE IF granule_children # <<>> THEN granule_children[1]
        ELSE Null

\* find_granule_directory(session, scene_id, safe_root, tile), given the two
\* listings it asks for
find_granule_directory(root_children, granule_children, tile) ==
    LET startswith_L2A(name) == name \in {"L2A_T10VFU_A035123", "L2A_T11ABC_A035123"}
        tile_in(name) ==
            tile = "T10VFU" /\ name \in {"L2A_T10VFU_A035123", "QI_T10VFU"}
        with_tile == {k \in DOMAIN granule_children :
                        /\ tile # Null
                        /\ startswith_L2A(granule_children[k])
                        /\ tile_in(granule_children[k])}
        any_L2A == {k \in DOMAIN granule_children : startswith_L2A(granule_children[k])}
    IN  IF ~\E k \in DOMAIN root_children : root_children[k] = "GRANULE" THEN Null
        ELSE IF with_tile # {} THEN granule_children[SetMin(with_tile)]
        ELSE IF any_L2A # {} THEN granule_children[SetMin(any_L2A)]
        ELSE IF granule_children # <<>> THEN granule_children[1]
        ELSE Null

\* band_res_map of select_s2_targets: filled only under `if granule_dir:`
band_res_map(bs, target_res_m, scl, possible_resolutions, nodes_by_res, granule_dir) ==
    IF granule_dir = "" THEN <<>>
    ELSE [band \in SeqToSet(bs) \cup (IF scl THEN {"SCL"} ELSE {}) |->
             select_band_file(band, target_res_m, SortedSet(possible_resolutions),
                              nodes_by_res, SafeRoot, granule_dir)[1]]

\* select_s2_targets from line 304 on, for a scene whose SAFE root was found.
\* Each listing of a tier, and the listing of the granule, succeeds or raises;
\* lines 324 and 356 catch requests.HTTPError and nothing else.
SelectTargets ==
    /\ call.fn = "none"
    /\ \E bs \in {<<"B02">>, <<"B8A", "B02">>}, target_res_m \in {10, 20}, scl \in BOOLEAN,
          tile \in {Null, "T10VFU"},
          root_children \in {<<"MTD_MSIL2A.xml">>, <<"MTD_MSIL2A.xml", "GRANULE">>},
          granule_listing \in {<<>>, <<"QI_T10VFU">>, <<"L2A", "QI_T10VFU">>,
                               <<"QI_T10VFU", "L2A_T11ABC_A035123">>,
                               <<"L2A_T11ABC_A035123", "L2A_T10VFU_A035123">>,
                               <<"L2A_T10VFU_A035123", "L2A_T11ABC_A035123">>},
          tiers \in [PossibleResolutions -> {"ok", "HTTPError", "ConnectionError", "Timeout"}],
          granule \in {[raised |-> "", children |-> <<"IMG_DATA", "MTD_TL.xml">>],
                       [raised |-> "", children |-> <<"IMG_DATA">>],
                       [raised |-> "HTTPError", children |-> <<>>],
                       [raised |-> "Timeout", children |-> <<>>]} :
          LET found == find_granule_directory(root_children, granule_listing, tile)
              granule_dir == IF found = Null THEN "" ELSE found
              nodes_by_res == [res \in PossibleResolutions |->
                                  IF tiers[res] = "ok" THEN SceneNodes[res] ELSE <<>>]
              uncaught == {res \in PossibleResolutions : tiers[res] \notin {"ok", "HTTPError"}}
          IN  /\ call' = [fn |-> "select_s2_targets", bands |-> bs, target_res_m |-> target_res_m,
                          include_scl |-> scl, tile |-> tile, root_children |-> root_children,
                          granule_listing |-> granule_listing, tiers |-> tiers,
                          granule |-> granule]
              /\ ret' =
                    IF granule_dir # "" /\ uncaught # {}
                    THEN [raised |-> tiers[SetMin(uncaught)]]
                    ELSE IF granule_dir # "" /\ granule.raised = "Timeout"
                    THEN [raised |-> "Timeout"]
                    ELSE [raised |-> "",
                          targets |-> select_s2_targets(bs, target_res_m, scl,
                                          PossibleResolutions, nodes_by_res, SafeRoot,
                                          granule_dir, granule.children),
                          granule_dir |-> found,
                          band_res_map |-> band_res_map(bs, target_res_m, scl,
                                               PossibleResolutions, nodes_by_res, granule_dir)]
    /\ UNCHANGED LUT
    /\ UNCHANGED <<chooseVars, fetchVars, authVars, pageVars, runVars>>

(***************************************************************************)
(* C32: find_granule_directory returns nothing if the scene root has no    *)
(* child named GRANULE; otherwise, over the children of <root>/GRANULE in  *)
(* listing order, the first name that starts with "L2A_" and contains the  *)
(* tile id (when a tile id is known); else the first name that starts with *)
(* "L2A_"; else the first child's name; else nothing.                      *)
(***************************************************************************)
C32_GranuleDirectoryChoice ==
    (call.fn = "select_s2_targets" /\ ret.raised = "") =>
        LET names == call.granule_listing
            l2a == {"L2A_T10VFU_A035123", "L2A_T11ABC_A035123"}
            tiled == IF call.tile = "T10VFU" THEN {"L2A_T10VFU_A035123"} ELSE {}
            FirstIn(S) == \E k \in DOMAIN names :
                             /\ names[k] \in S
                             /\ ret.granule_dir = names[k]
                             /\ \A j \in 1..(k - 1) : names[j] \notin S
        IN  IF "GRANULE" \notin SeqToSet(call.root_children) THEN ret.granule_dir = Null
            ELSE IF SeqToSet(names) \cap tiled # {} THEN FirstIn(tiled)
            ELSE IF SeqToSet(names) \cap l2a # {} THEN FirstIn(l2a)
            ELSE IF names # <<>> THEN ret.granule_dir = names[1]
            ELSE ret.granule_dir = Null

\* the granule of the tile was preferred to an "L2A_" granule listed before it
C32_Witness ==
    /\ call.fn = "select_s2_targets"
    /\ call.tile = "T10VFU"
    /\ call.granule_listing = <<"L2A_T11ABC_A035123", "L2A_T10VFU_A035123">>
    /\ ret.raised = ""
    /\ ret.granule_dir = "L2A_T10VFU_A035123"

(***************************************************************************)
(* C33: if listing <root>/GRANULE/<granule>/IMG_DATA/R<tier>m fails for a  *)
(* tier in any way (HTTP error status, connection error, timeout),         *)
(* select_s2_targets treats that tier as having no files, does not raise,  *)
(* and still selects the bands from the tiers whose listing succeeded.     *)
(***************************************************************************)
C33_TierListingFailuresTolerated ==
    (/\ call.fn = "select_s2_targets"
     /\ find_granule_directory(call.root_children, call.granule_listing, call.tile) # Null
     /\ call.granule.raised # "Timeout") =>
        /\ ret.raised = ""
        /\ \A band \in DOMAIN ret.band_res_map :
              LET listed == {res \in PossibleResolutions :
                               /\ call.tiers[res] = "ok"
                               /\ Jp2(band, res) \in SeqToSet(SceneNodes[res])}
              IN  IF listed = {} THEN ret.band_res_map[band] = NoneVal
                  ELSE ret.band_res_map[band] \in listed

(***************************************************************************)
(* C34: for each requested band (and the classification band when          *)
(* requested), if no tier lists a file ending in "_<band>_<tier>m.jp2" the *)
(* band is recorded in the band-resolution map as None and no target is    *)
(* added for it; otherwise the recorded resolution r is                    *)
(* choose_best_resolution(target, tiers having the band) and exactly one   *)
(* target (root, GRANULE, granule, IMG_DATA, R<r>m, file) is added, whose  *)
(* file name ends in "_<band>_<r>m.jp2", with the same root and granule    *)
(* directory for all bands of the scene.                                   *)
(***************************************************************************)
C34_BandAvailability ==
    (call.fn = "select_s2_targets" /\ ret.raised = "") =>
        \A band \in SeqToSet(call.bands) \cup (IF call.include_scl THEN {"SCL"} ELSE {}) :
            LET listed == {res \in PossibleResolutions :
                             /\ ret.granule_dir # Null
                             /\ call.tiers[res] = "ok"
                             /\ Jp2(band, res) \in SeqToSet(SceneNodes[res])}
                of_band == {k \in DOMAIN ret.targets :
                              /\ Len(ret.targets[k]) = 6
                              /\ ret.targets[k][6].band = band}
            IN  /\ band \in DOMAIN ret.band_res_map
                /\ IF listed = {}
                   THEN ret.band_res_map[band] = NoneVal /\ of_band = {}
                   ELSE LET r == choose_best_resolution(call.target_res_m, SortedSet(listed))
                        IN  /\ ret.band_res_map[band] = r
                            /\ \E k \in DOMAIN ret.targets :
                                  /\ of_band = {k}
                                  /\ ret.targets[k] = <<SafeRoot, "GRANULE", ret.granule_dir,
                                                        "IMG_DATA", ResDir(r), Jp2(band, r)>>

(***************************************************************************)
(* C35: every target list returned by select_s2_targets contains the       *)
(* per-scene root metadata target (root, "MTD_MSIL2A.xml") exactly once,   *)
(* as its last element, whatever the band availability and even when no    *)
(* granule directory was found (so the list is never empty); it contains   *)
(* the per-granule metadata target (root, GRANULE, granule, "MTD_TL.xml")  *)
(* iff a granule directory was found and lists a child of that name.       *)
(***************************************************************************)
C35_MetadataTargets ==
    (call.fn = "select_s2_targets" /\ ret.raised = "") =>
        LET root_mtd == <<SafeRoot, "MTD_MSIL2A.xml">>
            is_granule_mtd(t) == Len(t) = 4 /\ t[4] = "MTD_TL.xml"
        IN  /\ ret.targets # <<>>
            /\ ret.targets[Len(ret.targets)] = root_mtd
            /\ Cardinality({k \in DOMAIN ret.targets : ret.targets[k] = root_mtd}) = 1
            /\ (\E k \in DOMAIN ret.targets : is_granule_mtd(ret.targets[k]))
                  <=> (/\ ret.granule_dir # Null
                       /\ "MTD_TL.xml" \in SeqToSet(call.granule.children))
            /\ \A k \in DOMAIN ret.targets :
                  is_granule_mtd(ret.targets[k]) =>
                      ret.targets[k] = <<SafeRoot, "GRANULE", ret.granule_dir, "MTD_TL.xml">>

\* no granule directory was found and the list holds the scene metadata alone
C35_Witness ==
    /\ call.fn = "select_s2_targets"
    /\ ret.raised = ""
    /\ ret.granule_dir = Null
    /\ ret.targets = << <<SafeRoot, "MTD_MSIL2A.xml">> >>

(***************************************************************************)
(* The dn-offset command: get_band_paths over a local tree, then one       *)
(* create_pb_offset_vrt task per record.  A band file is                   *)
(* <safe>/R<res>m/<tile>_<stamp>_<band>_<res>m.jp2: its dir is             *)
(* <<safe, ResDir(res)>>, its name <<stem, "jp2">> with the stem           *)
(* <<tile, stamp, band, res>>; a SAFE directory is <<mission, stamp,       *)
(* baseline code>>.  A stamp is the eight digits before "T" that the       *)
(* regular expression of extract_s2_acq_date looks for, or has = FALSE.    *)
(***************************************************************************)
S2_RES_OPTS == <<10, 20, 60>>

\* extract_s2_acq_date(band_path): the stamp of the file name, else the stamp of
\* the SAFE directory above; strptime raises for digits that are no date
extract_s2_acq_date(band_path) ==
    LET in_name == band_path.name[1][2]
        m == IF in_name.has THEN in_name ELSE band_path.dir[1][2]
    IN  IF ~m.has THEN [raised |-> "", found |-> FALSE, date |-> m]
        ELSE IF m.month \in 1..12 /\ m.day \in 1..monthrange(m.year, m.month)
        THEN [raised |-> "", found |-> TRUE, date |-> m]
        ELSE [raised |-> "ValueError", found |-> FALSE, date |-> m]

\* get_band_paths(data_dir, bands, target_res_m, years, period_start, period_end):
\* files is the tree under data_dir, period is <<>> or <<period_start, period_end>>
get_band_paths(files, bs, target_res_m, years, period) ==
    LET glob(band, res) == {f \in files : /\ f.dir[2] = ResDir(res)
                                          /\ f.name[1][3] = band
                                          /\ f.name[1][4] = res
                                          /\ f.name[2] = "jp2"}
        resolutions_to_try(band) ==
            IF glob(band, target_res_m) # {} THEN <<target_res_m>>
            ELSE SelectSeq(S2_RES_OPTS, LAMBDA r : r # target_res_m)
        \* the tiers the loop of line 151 reaches: it breaks only after a tier
        \* that has matches and is the target
        reached(band) ==
            LET rs == resolutions_to_try(band)
            IN  {rs[k] : k \in {i \in DOMAIN rs :
                                  \A j \in 1..(i - 1) :
                                      ~(glob(band, rs[j]) # {} /\ rs[j] = target_res_m)}}
        res_matches(band) == UNION {glob(band, res) : res \in reached(band)}
        kept(f) ==
            LET acq == extract_s2_acq_date(f)
            IN  /\ acq.found
                /\ years = {} \/ acq.date.year \in years
                /\ period = <<>> \/ in_season_window(acq.date, period[1], period[2])
        raises(band) ==
            IF \E f \in res_matches(band) : extract_s2_acq_date(f).raised # ""
            THEN "ValueError"
            ELSE IF res_matches(band) = {} THEN "RuntimeError"
            ELSE ""
        failing == {k \in DOMAIN bs : raises(bs[k]) # ""}
    IN  IF failing # {}
        THEN [raised |-> raises(bs[SetMin(failing)]), records |-> {}, columns |-> <<>>]
        ELSE [raised |-> "",
              records |-> {[band |-> bs[k], band_jp2_path |-> f,
                            acq_date |-> extract_s2_acq_date(f).date,
                            resolution_m |-> f.name[1][4]] :
                              <<k, f>> \in {x \in (DOMAIN bs) \X files :
                                              x[2] \in res_matches(bs[x[1]]) /\ kept(x[2])}},
              columns |-> <<"band", "band_jp2_path", "acq_date", "resolution_m">>]

\* the dn-offset command: main.py lines 442-491.  Every record becomes a task
\* (band_jp2_path, dn_offset); each task writes the VRT create_pb_offset_vrt names.
DnOffset ==
    /\ call.fn = "none"
    /\ LET Stamp(y, m, d) == [has |-> TRUE, year |-> y, month |-> m, day |-> d]
           NoStamp == [has |-> FALSE, year |-> 0, month |-> 0, day |-> 0]
           Safe(stamp, code) == <<"S2A_MSIL2A", stamp, code>>
           File(safe, stamp, band, res) ==
               [dir |-> <<safe, ResDir(res)>>,
                name |-> << <<"T06WVB", stamp, band, res>>, "jp2" >>]
           N0400 == <<"N", "0", "4", "0", "0">>
           N0300 == <<"N", "0", "3", "0", "0">>
           July == Stamp(2019, 7, 1)
           \* the files of one band in one tier: none; one scene; the same scene
           \* under two processing baselines; two scenes; a scene without a
           \* stamp; a scene whose digits are no date
           Tier(band, res) ==
               {{}, {File(Safe(July, N0400), July, band, res)},
                {File(Safe(July, N0400), July, band, res),
                 File(Safe(July, N0300), July, band, res)},
                {File(Safe(July, N0400), July, band, res),
                 File(Safe(Stamp(2020, 1, 15), N0400), Stamp(2020, 1, 15), band, res)},
                {File(Safe(NoStamp, N0400), NoStamp, band, res)},
                {File(Safe(July, N0400), Stamp(2020, 6, 31), band, res)}}
       IN  \E b10 \in Tier("B02", 10), b20 \in Tier("B02", 20), b60 \in Tier("B02", 60),
              other \in {{}, {File(Safe(July, N0400), July, "B03", 20)}},
              bs \in {<<"B02">>, <<"B03", "B02">>}, res \in {10, 20, 60},
              filter \in {[years |-> {}, period |-> <<>>],
                          [years |-> {2019}, period |-> <<>>],
                          [years |-> {}, period |-> << <<11, 1>>, <<2, 28>> >>]} :
              LET files == b10 \cup b20 \cup b60 \cup other
                  band_paths_df == get_band_paths(files, bs, res, filter.years, filter.period)
                  to_path(f) ==
                      << [parts |-> << <<"S", "2", "A">>, f.dir[1][3], <<"T", "0", "6">> >>,
                          safe |-> TRUE],
                         [parts |-> << <<"B">> >>, safe |-> FALSE] >>
                  tasks == {[band_jp2_path |-> r.band_jp2_path,
                             dn_offset |-> get_pb_offset_from_jp2(to_path(r.band_jp2_path))] :
                               r \in band_paths_df.records}
              IN  /\ call' = [fn |-> "dn_offset", files |-> files, bands |-> bs, res |-> res,
                              years |-> filter.years, period |-> filter.period]
                  /\ ret' = [band_paths_df |-> band_paths_df,
                             written |-> {[task |-> t,
                                           vrt |-> create_pb_offset_vrt(t.band_jp2_path,
                                                       t.dn_offset, "out", 65535)] :
                                            t \in tasks}]
    /\ UNCHANGED LUT
    /\ UNCHANGED <<chooseVars, fetchVars, authVars, pageVars, runVars>>

(***************************************************************************)
(* C36: post-download band discovery uses a single tier per band: if files *)
(* for the band exist at the target resolution, only those are used;       *)
(* otherwise the other tiers are searched in the order of (10, 20, 60)     *)
(* without the target, and the records of the band come only from the      *)
(* first tier that has any matching file.                                  *)
(***************************************************************************)
C36_SingleTierPerBand ==
    (call.fn = "dn_offset" /\ ret.band_paths_df.raised = "") =>
        \A band \in SeqToSet(call.bands) :
            LET has(res) == \E f \in call.files : f.name[1][3] = band /\ f.name[1][4] = res
                others == SelectSeq(<<10, 20, 60>>, LAMBDA r : r # call.res)
                tier == IF has(call.res) THEN call.res
                        ELSE others[SetMin({k \in DOMAIN others : has(others[k])})]
            IN  \A r \in ret.band_paths_df.records :
                    r.band = band => r.resolution_m = tier

(***************************************************************************)
(* C37: get_band_paths raises for a band iff no file for that band exists  *)
(* locally at any of the tiers 10, 20, 60, judged before the year and      *)
(* seasonal filters are applied; when files exist but all are removed by   *)
(* the filters (or have no parsable date) it does not raise and returns an *)
(* empty table with the four record columns.                               *)
(***************************************************************************)
C37_RaisesIffBandAbsent ==
    call.fn = "dn_offset" =>
        LET absent == {band \in SeqToSet(call.bands) :
                         ~\E f \in call.files : f.name[1][3] = band}
        IN  /\ (ret.band_paths_df.raised # "") <=> (absent # {})
            /\ ret.band_paths_df.raised = "" =>
                  ret.band_paths_df.columns
                      = <<"band", "band_jp2_path", "acq_date", "resolution_m">>

(***************************************************************************)
(* C40: in the parallel dn-offset stage no two workers write the same      *)
(* output file: distinct band files selected by get_band_paths (same-named *)
(* band files under different .SAFE directories included) are mapped by    *)
(* create_pb_offset_vrt to distinct VRT paths in the shared output         *)
(* directory, so each task's VRT describes its own source band.            *)
(***************************************************************************)
C40_OneWriterPerVrt ==
    call.fn = "dn_offset" =>
        \A a, b \in ret.written :
            a.task.band_jp2_path # b.task.band_jp2_path => a.vrt.file # b.vrt.file

PureNext ==
    \/ PasswordGrantCreds
    \/ InferOffset
    \/ OffsetStage
    \/ MaskStage
    \/ InSeason
    \/ SafeDate
    \/ SendRequest
    \/ SelectTargets
    \/ DnOffset

SpecPure == PureInit /\ [][PureNext]_vars

====
